---- MODULE Spec2Model ----
(***************************************************************************)
(* News-Automation: the Gemini key pool (get_next_available_model,         *)
(* safe_gemini_call), the constructor of GeminiEmotionProcessor and the    *)
(* per-item batch loops of the two news processors.                        *)
(*                                                                         *)
(* Time is counted in whole seconds.  Credentials are numbered from 0, as  *)
(* calls_per_key is keyed in the source.                                   *)
(***************************************************************************)
EXTENDS Integers, Sequences, FiniteSets, TLC

(***************************************************************************)
(* Bounds of the model.                                                    *)
(***************************************************************************)

\* Largest number of initialised Gemini models (the source reads 4 keys).
MaxKeys == 2

\* self.max_calls_per_key_per_minute: a setting of the pool (15 in the
\* source, line 61), scaled down so that saturation is reached.
max_calls_per_key_per_minute == 2

\* Largest value of the retries parameter of safe_gemini_call.
MaxRetries == 2

\* API calls issued in one behaviour.
MaxCalls == 6

\* API calls issued in one behaviour of two concurrent callers.
MaxCallsConc == 3

\* The clock stops here.
MaxTime == 66

(***************************************************************************)
(* Program constants.                                                      *)
(***************************************************************************)

\* current_time - t < 60 : the rolling window, in seconds.
Window == 60

\* wait_time = 60 - (...) + 1 : the slack added to the wait.
WaitSlack == 1

\* time.sleep(1) after a successful call.
SuccessDelay == 1

\* time.sleep(3) before a retry.
RetryDelay == 3

Callers == {1, 2}

\* No index yet: the local model_index is unbound.
NoIndex == 0 - 1

VARIABLES
    now,                \* time.time()
    callers,            \* the callers that use the processor in this run
    num_models,         \* len(self.gemini_models)
    current_key_index,  \* self.current_key_index
    calls_per_key,      \* self.calls_per_key : index -> list of timestamps
    calls_made,         \* model_info['calls_made'] of every model
    issued,             \* per credential, the times of the API calls issued
    pc,                 \* per caller: position inside safe_gemini_call
    retries,            \* per caller: the retries argument
    attempt,            \* per caller: the loop variable of safe_gemini_call
    model_index,        \* per caller: the index get_next_available_model gave
    wake,               \* per caller: end of the saturation sleep
    outcomes,           \* per caller: result of every API call of this call
    result,             \* per caller: how safe_gemini_call ended
    gnam_error,         \* get_next_available_model raised
    processor,          \* which processor class this run drives
    constructed,        \* how the constructor ended
    emotions_rows,      \* the rows the emotions table answered with
    emotions_db,        \* self.emotions_db, in insertion order
    n_items,            \* len(all_news)
    item,               \* the loop variable i of the batch loop
    stage,              \* position inside the batch loop
    cur,                \* the locals of the current loop iteration
    cap_attempt,        \* the loop variable of generate_meme_captions
    processed_memes,    \* processed_memes: the items emitted, by position
    processed_categories, \* processed_categories of process_news_with_images
    item_log,           \* how every finished iteration ended
    all_news,           \* all_news of get_all_news, as scraped
    unique_news,        \* unique_news of get_all_news
    scrape_stage,       \* position inside get_all_news
    final_categorized_news, \* what get_all_news returns
    link,               \* the link the scraper looked at last, and its fate
    caption_stage,      \* which caption function runs, if any
    dialogue_attempt,   \* attempt of generate_meme_captions
    raw_responses,      \* the replies to the caption prompts so far
    captions,           \* captions of the caption function, as parsed last
    returned,           \* what the caption function gave back
    sent_prompts,       \* the prompts generate_meme_captions has sent
    meme_data,          \* the meme record of the card rendered last
    processed_dialogues, \* the dialogues the card overlays
    returned_hashtags    \* the list generate_hashtags returns

poolVars == <<now, callers, num_models, current_key_index, calls_per_key,
              calls_made, issued, pc, retries, attempt, model_index, wake,
              outcomes, result, gnam_error>>

batchVars == <<processor, constructed, emotions_rows, emotions_db, n_items,
               item, stage, cur, cap_attempt, processed_memes,
               processed_categories, item_log>>

parseVars ==
    <<caption_stage, dialogue_attempt, raw_responses, captions, returned,
      sent_prompts, meme_data, processed_dialogues, returned_hashtags>>

textVars ==
    <<all_news, unique_news, scrape_stage, link, final_categorized_news,
      parseVars>>

pipeVars == <<batchVars, textVars>>

vars == <<poolVars, pipeVars>>

Keys == 0 .. (num_models - 1)

Min(s) == CHOOSE x \in s : \A y \in s : x <= y

Max2(a, b) == IF a >= b THEN a ELSE b

SeqRange(s) == {s[i] : i \in DOMAIN s}

TotalIssued == LET RECURSIVE Sum(_)
                   Sum(k) == IF k < 0 THEN 0 ELSE Len(issued[k]) + Sum(k - 1)
               IN Sum(num_models - 1)

CallBudget == IF Cardinality(callers) = 1 THEN MaxCalls ELSE MaxCallsConc

(***************************************************************************)
(* get_next_available_model                                                *)
(***************************************************************************)

\* The window is handed on as it is, no timestamp dropped.
KeepAll(w, current_time) == w

\* The capacity test with its bound one too high.
HasCapacityInclusive(w) == Len(w) <= max_calls_per_key_per_minute

\* [t for t in self.calls_per_key[model_index] if current_time - t < 60]
CleanOld(w, current_time) == SelectSeq(w, LAMBDA t : current_time - t < Window)

\* len(self.calls_per_key[model_index]) < self.max_calls_per_key_per_minute
HasCapacity(w) == Len(w) < max_calls_per_key_per_minute

\* The for loop over range(len(self.gemini_models)), from `tries` on: the
\* windows as the loop leaves them and the index it returns, if any.
RECURSIVE ScanModels(_, _, _, _)
ScanModels(cpk, cursor, current_time, tries) ==
    IF tries >= num_models
    THEN [found |-> FALSE, index |-> NoIndex, windows |-> cpk]
    ELSE LET mi      == (cursor + tries) % num_models
             cleaned == [cpk EXCEPT ![mi] = CleanOld(@, current_time)]
         IN  IF HasCapacity(cleaned[mi])
             THEN [found |-> TRUE, index |-> mi, windows |-> cleaned]
             ELSE ScanModels(cleaned, cursor, current_time, tries + 1)

\* The wait with its subtraction turned round.
WaitTimeSwapped(current_time, w) ==
    (current_time - Min(SeqRange(w))) - Window + WaitSlack

\* wait_time = 60 - (current_time - min(self.calls_per_key[0])) + 1
WaitTime(current_time, w) == Window - (current_time - Min(SeqRange(w))) + WaitSlack

\* min() of an empty list raises ValueError, time.sleep() of a negative
\* number raises ValueError.
WaitRaises(current_time, w) ==
    \/ w = <<>>
    \/ WaitTime(current_time, w) < 0

\* Lines 87-104 and, when no key has capacity, lines 107-109 up to the sleep.
GetNextAvailableModel(c) ==
    /\ UNCHANGED pipeVars
    /\ pc[c] = "get_model"
    /\ LET scan == ScanModels(calls_per_key, current_key_index, now, 0)
       IN  /\ calls_per_key' = scan.windows
           /\ IF scan.found
              THEN /\ current_key_index' = (scan.index + 1) % num_models
                   /\ model_index' = [model_index EXCEPT ![c] = scan.index]
                   /\ pc' = [pc EXCEPT ![c] = "record"]
                   /\ UNCHANGED <<wake, gnam_error>>
              ELSE /\ UNCHANGED <<current_key_index, model_index>>
                   /\ IF WaitRaises(now, scan.windows[0])
                      THEN /\ gnam_error' = TRUE
                           /\ pc' = [pc EXCEPT ![c] = "except"]
                           /\ UNCHANGED wake
                      ELSE /\ wake' = [wake EXCEPT ![c] =
                                          now + WaitTime(now, scan.windows[0])]
                           /\ pc' = [pc EXCEPT ![c] = "wait"]
                           /\ UNCHANGED gnam_error
    /\ UNCHANGED <<now, callers, num_models, calls_made, issued, retries,
                   attempt, outcomes, result>>

\* Every window cleared after the sleep.
ClearAllAfterWait(cpk) == [i \in DOMAIN cpk |-> <<>>]

\* The windows after the sleep: self.calls_per_key[0] = []
ClearAfterWait(cpk) == [cpk EXCEPT ![0] = <<>>]

\* Lines 109-113: the sleep ends, key 0 is cleared and returned.
WakeFromWait(c) ==
    /\ UNCHANGED pipeVars
    /\ pc[c] = "wait"
    /\ Max2(now, wake[c]) <= MaxTime
    /\ now' = Max2(now, wake[c])
    /\ calls_per_key' = ClearAfterWait(calls_per_key)
    /\ model_index' = [model_index EXCEPT ![c] = 0]
    /\ pc' = [pc EXCEPT ![c] = "record"]
    /\ UNCHANGED <<callers, num_models, current_key_index, calls_made, issued,
                   retries, attempt, wake, outcomes, result, gnam_error>>

(***************************************************************************)
(* safe_gemini_call                                                        *)
(***************************************************************************)

NoResult == [kind |-> "none", text |-> 0]

\* A caller enters safe_gemini_call(prompt, retries = r).
CallStart(c, r) ==
    /\ UNCHANGED pipeVars
    /\ pc[c] = "idle"
    /\ TotalIssued < CallBudget
    /\ retries' = [retries EXCEPT ![c] = r]
    /\ attempt' = [attempt EXCEPT ![c] = 0]
    /\ outcomes' = [outcomes EXCEPT ![c] = <<>>]
    /\ result' = [result EXCEPT ![c] = NoResult]
    /\ pc' = [pc EXCEPT ![c] = "get_model"]
    /\ UNCHANGED <<now, callers, num_models, current_key_index, calls_per_key,
                   calls_made, issued, model_index, wake, gnam_error>>

\* Lines 125-128: the call is recorded against the key, then sent (line 133).
RecordCall(c) ==
    /\ UNCHANGED pipeVars
    /\ pc[c] = "record"
    /\ LET mi == model_index[c]
       IN  /\ calls_per_key' = [calls_per_key EXCEPT ![mi] = Append(@, now)]
           /\ calls_made' = [calls_made EXCEPT ![mi] = @ + 1]
           /\ issued' = [issued EXCEPT ![mi] = Append(@, now)]
    /\ pc' = [pc EXCEPT ![c] = "generate"]
    /\ UNCHANGED <<now, callers, num_models, current_key_index, retries,
                   attempt, model_index, wake, outcomes, result, gnam_error>>

\* The test of the except clause with its bound one too high.
RetryFollowsOffByOne(a, r) == a < r

\* attempt < retries - 1 : another attempt follows the failed one.
RetryFollows(a, r) == a < r - 1

\* How the except clause (lines 140-148) and the for loop go on after a
\* failed attempt a of r: the next attempt, the raise of line 148, or the
\* end of the loop (the function then returns None).
AfterFailure(a, r) ==
    IF RetryFollows(a, r)
    THEN IF a + 1 < r THEN "retry" ELSE "fall_through"
    ELSE "raise"

\* Lines 133-138: generate_content answers; the text of the k-th call of
\* this invocation is written k.
GenerateSucceeds(c) ==
    /\ UNCHANGED pipeVars
    /\ pc[c] = "generate"
    /\ now + SuccessDelay <= MaxTime
    /\ now' = now + SuccessDelay
    /\ outcomes' = [outcomes EXCEPT ![c] = Append(@, "ok")]
    /\ result' = [result EXCEPT ![c] =
                     [kind |-> "return", text |-> Len(outcomes[c]) + 1]]
    /\ pc' = [pc EXCEPT ![c] = "idle"]
    /\ UNCHANGED <<callers, num_models, current_key_index, calls_per_key,
                   calls_made, issued, retries, attempt, model_index, wake,
                   gnam_error>>

\* Lines 133, 140-148: generate_content (or reading its text) raises.
GenerateFails(c) ==
    /\ UNCHANGED pipeVars
    /\ pc[c] = "generate"
    /\ LET next == AfterFailure(attempt[c], retries[c])
           delay == IF RetryFollows(attempt[c], retries[c])
                    THEN RetryDelay ELSE 0
       IN  /\ now + delay <= MaxTime
           /\ now' = now + delay
           /\ outcomes' = [outcomes EXCEPT ![c] = Append(@, "fail")]
           /\ attempt' = [attempt EXCEPT ![c] =
                             IF next = "retry" THEN @ + 1 ELSE @]
           /\ result' = [result EXCEPT ![c] =
                            CASE next = "retry" -> NoResult
                              [] next = "raise" -> [kind |-> "raise", text |-> 0]
                              [] OTHER -> [kind |-> "return", text |-> 0]]
           /\ pc' = [pc EXCEPT ![c] =
                        IF next = "retry" THEN "get_model" ELSE "idle"]
    /\ UNCHANGED <<callers, num_models, current_key_index, calls_per_key,
                   calls_made, issued, retries, model_index, wake, gnam_error>>

\* Time passes between two calls of the processor.
Elapse(d) ==
    /\ UNCHANGED pipeVars
    /\ \A c \in callers : pc[c] = "idle"
    /\ now + d <= MaxTime
    /\ now' = now + d
    /\ UNCHANGED <<callers, num_models, current_key_index, calls_per_key,
                   calls_made, issued, pc, retries, attempt, model_index,
                   wake, outcomes, result, gnam_error>>

ElapseChoices == {20, 61}

(***************************************************************************)
(* GeminiEmotionProcessor: construction and the emotion catalog            *)
(***************************************************************************)

\* min(len(all_news), 20): the cap on the items of one run (20 in the
\* source, line 629), scaled down so that batches longer than it occur.
ItemCap == 2

\* max_attempts of generate_meme_captions.
max_attempts == 4

\* category_count > 10 : the items kept per category.
PerCategoryCap == 10

\* len(v) >= 3 : the smallest category process_news_with_images keeps.
MinCategorySize == 3

\* emotion_id '' of the 'neutral' answers.
EmptyId == 0

major_categories ==
    {"politics", "entertainment", "movies", "sports", "business",
     "technology", "crime"}

\* str.lower() on the texts of this model.
Lower(s) ==
    CASE s = "Joy" -> "joy"
      [] s = "JOY" -> "joy"
      [] s = "POLITICS" -> "politics"
      [] OTHER -> s

\* The rows of `labels`, the k-th with emotion_id k.
Catalog(labels) ==
    [k \in DOMAIN labels |-> [emotion_id |-> k, emotion_label |-> labels[k]]]

\* What the emotions table may answer: no row, one row, rows of different
\* labels in either order, rows whose labels differ only in case.
CatalogAnswers ==
    {Catalog(<<>>), Catalog(<<"Joy">>), Catalog(<<"joy", "sad">>),
     Catalog(<<"sad", "Joy">>), Catalog(<<"Joy", "joy">>)}

\* The rows the memes_dc table may hold.
MemesRows ==
    {[template |-> 1, emotion_id |-> 1, image_path |-> "a.png"],
     [template |-> 2, emotion_id |-> 2, image_path |-> "b.png"],
     [template |-> 3, emotion_id |-> EmptyId, image_path |-> "n.png"]}

NoTemplate == [template |-> 0, emotion_id |-> EmptyId, image_path |-> ""]

\* A reply of an external call: it raised, or it answered with a value.
Raised == [kind |-> "raise", value |-> "none"]
Answer(v) == [kind |-> "text", value |-> v]

\* What a call of the model can give: an exception or one of the texts.
LlmReplies(texts) == {Raised} \cup {Answer(t) : t \in texts}

\* The loop of load_emotions_from_supabase over the first k rows: a dict
\* keyed by the lower-cased label, a later row replacing an earlier one of
\* the same key in place.
RECURSIVE BuildEmotions(_, _)
BuildEmotions(rows, k) ==
    IF k = 0
    THEN <<>>
    ELSE LET d == BuildEmotions(rows, k - 1)
             e == [key |-> Lower(rows[k].emotion_label),
                   emotion_id |-> rows[k].emotion_id,
                   emotion_label |-> rows[k].emotion_label]
         IN  IF \E j \in DOMAIN d : d[j].key = e.key
             THEN [j \in DOMAIN d |-> IF d[j].key = e.key THEN e ELSE d[j]]
             ELSE Append(d, e)

\* load_emotions_from_supabase: {} when the query raises or has no data.
LoadEmotions(response) ==
    IF response.kind = "raise" \/ response.value = <<>>
    THEN <<>>
    ELSE BuildEmotions(response.value, Len(response.value))

\* The outcome of __init__ for `keys` configured API keys of which `ok`
\* initialise, and the Supabase settings present or not.
ConstructorOutcome(keys, ok, supabase_env) ==
    IF keys = 0 THEN "raised"
    ELSE IF ok = 0 THEN "raised"
    ELSE IF ~supabase_env THEN "raised"
    ELSE "ok"

NewItem ==
    [hint |-> "none", has_title |-> TRUE, has_content |-> TRUE,
     category |-> "none", category_from |-> "none", summary |-> "none",
     summary_len |-> 0, detected |-> "none", label |-> "none",
     emotion_id |-> EmptyId, confidence |-> "none", table |-> {},
     template |-> NoTemplate, captions |-> "none", hashtags |-> "none",
     failed |-> {}, llm_calls |-> 0]

\* GeminiEmotionProcessor.__init__
Construct(keys, ok, supabase_env, response) ==
    /\ processor = "gemini"
    /\ constructed = "no"
    /\ constructed' = ConstructorOutcome(keys, ok, supabase_env)
    /\ IF constructed' = "ok"
       THEN /\ num_models' = ok
            /\ current_key_index' = 0
            /\ calls_per_key' = [k \in 0 .. (ok - 1) |-> <<>>]
            /\ calls_made' = [k \in 0 .. (ok - 1) |-> 0]
            /\ issued' = [k \in 0 .. (ok - 1) |-> <<>>]
            /\ emotions_rows' =
                   IF response.kind = "raise" THEN <<>> ELSE response.value
            /\ emotions_db' = LoadEmotions(response)
       ELSE UNCHANGED <<num_models, current_key_index, calls_per_key,
                        calls_made, issued, emotions_rows, emotions_db>>
    /\ UNCHANGED <<now, callers, pc, retries, attempt, model_index, wake,
                   outcomes, result, gnam_error, processor, n_items, item,
                   stage, cur, cap_attempt, processed_memes,
                   processed_categories, item_log, textVars>>

\* EnhancedNewsProcessorWithImages.__init__
ConstructOllama ==
    /\ processor = "ollama"
    /\ constructed = "no"
    /\ constructed' = "ok"
    /\ UNCHANGED <<poolVars, textVars, processor, emotions_rows, emotions_db,
                   n_items, item, stage, cur, cap_attempt, processed_memes,
                   processed_categories, item_log>>

(***************************************************************************)
(* The LLM steps of one item                                               *)
(***************************************************************************)

\* The category hints the scraped items carry.
Hints == {"sports", "weather"}

\* What the model answers when asked for a category.
CategoryTexts == {"POLITICS", "health", "dunno"}

\* What the model answers when asked for an emotion.
EmotionTexts == {"JOY", "sad", "angry", "joyful"}

\* The non-blank lines of a summary answer.
SummaryLines == {0, 1, 3}

\* The shapes of a hashtag answer: a JSON list, other JSON, text with
\* #tags, text without.
HashtagTexts == {"json_list", "json_other", "text_tags", "text_plain"}

\* fallback_category if fallback_category in self.major_categories else
\* 'entertainment'
FallbackCategory(hint) ==
    IF hint \in major_categories THEN hint ELSE "entertainment"

\* call_gemini_for_category and call_ollama_for_category: the category and
\* where it came from.
CategoryOf(reply, hint) ==
    IF reply.kind # "text"
    THEN [category |-> FallbackCategory(hint), from |-> "fallback"]
    ELSE LET category == Lower(reply.value)
         IN  IF category \in major_categories
             THEN [category |-> category, from |-> "llm"]
             ELSE IF category \in {"health", "international", "general"}
             THEN [category |-> "entertainment", from |-> "mapped"]
             ELSE [category |-> FallbackCategory(hint), from |-> "fallback"]

\* call_gemini_for_buzzy_summary and call_ollama_for_buzzy_summary: the
\* first two non-blank lines of the answer, or the title.
SummaryOf(reply) ==
    IF reply.kind # "text" \/ reply.value = 0
    THEN "title"
    ELSE "llm"

DbKeys(db) == {db[j].key : j \in DOMAIN db}

DbEntry(db, key) == db[CHOOSE j \in DOMAIN db : db[j].key = key]

\* analyze_emotion_in_summary falling back to the last key of the catalog.
EmotionOfLastKey(reply, db) ==
    IF reply.kind # "text"
    THEN [label |-> "neutral", emotion_id |-> EmptyId, confidence |-> "error"]
    ELSE LET detected_emotion == Lower(reply.value)
         IN  IF detected_emotion \in DbKeys(db)
             THEN [label |-> detected_emotion,
                   emotion_id |-> DbEntry(db, detected_emotion).emotion_id,
                   confidence |-> "high"]
             ELSE IF db # <<>>
             THEN [label |-> db[Len(db)].key,
                   emotion_id |-> db[Len(db)].emotion_id,
                   confidence |-> "fallback"]
             ELSE [label |-> "neutral", emotion_id |-> EmptyId,
                   confidence |-> "error"]

\* analyze_emotion_in_summary
EmotionOf(reply, db) ==
    IF reply.kind # "text"
    THEN [label |-> "neutral", emotion_id |-> EmptyId, confidence |-> "error"]
    ELSE LET detected_emotion == Lower(reply.value)
         IN  IF detected_emotion \in DbKeys(db)
             THEN [label |-> detected_emotion,
                   emotion_id |-> DbEntry(db, detected_emotion).emotion_id,
                   confidence |-> "high"]
             ELSE IF db # <<>>
             THEN [label |-> db[1].key, emotion_id |-> db[1].emotion_id,
                   confidence |-> "fallback"]
             ELSE [label |-> "neutral", emotion_id |-> EmptyId,
                   confidence |-> "error"]

\* A query that forgets its filter.
AllMemes(table, emotion_id) == table

\* select('*').eq('emotion_id', emotion_id) on the memes_dc table.
MemesWithEmotion(table, emotion_id) ==
    {t \in table : t.emotion_id = emotion_id}

\* generate_hashtags with its except clause letting the error through.
HashtagsOrRaise(reply) ==
    IF reply.kind # "text" THEN "raise"
    ELSE IF reply.value \in {"json_list", "text_tags"} THEN "llm"
    ELSE "canned6"

\* generate_hashtags: the answer's tags, or one of the two canned lists.
HashtagsOf(reply) ==
    IF reply.kind # "text" THEN "canned4"
    ELSE IF reply.value \in {"json_list", "text_tags"} THEN "llm"
    ELSE "canned6"

\* An item's failure ends the whole loop.
AbortOnItemFailure == "aborted"

\* `continue`: after an item is skipped the loop goes on.
AfterItemFailure == "loop"

Min2(a, b) == IF a <= b THEN a ELSE b

\* max_items = min(len(all_news), 20); process_news_with_images takes all.
MaxItems == IF processor = "gemini" THEN Min2(n_items, ItemCap) ELSE n_items

Last(s) == s[Len(s)]

batchFrame ==
    UNCHANGED <<poolVars, textVars, processor, constructed, emotions_rows,
                emotions_db, n_items>>

\* retries: int = 2, the default every caller of safe_gemini_call uses.
default_retries == 2

\* safe_gemini_call may go one API call beyond its retries.
ApiCallsAndOneMore(answered) == 1 .. default_retries + 1

\* Every API call but the last of each safe_gemini_call fails.
AllRetriesUsed == {default_retries}

\* The API calls one safe_gemini_call issues: the one that answered with
\* the failed ones before it, or `retries` failed ones before it raises.
ApiCalls(answered) ==
    IF answered THEN 1 .. default_retries ELSE {default_retries}

\* The iteration ends without an item: `continue`.
SkipItem(why) ==
    /\ stage' = AfterItemFailure
    /\ item_log' = Append(item_log, why)

(***************************************************************************)
(* process_news_with_emotion_templates                                     *)
(***************************************************************************)

\* The processor is handed a batch of n items.
StartBatch(n) ==
    /\ constructed = "ok"
    /\ stage = "idle"
    /\ n_items' = n
    /\ item' = 0
    /\ stage' = "loop"
    /\ cur' = NewItem
    /\ cap_attempt' = 0
    /\ processed_memes' = <<>>
    /\ processed_categories' = [c \in major_categories |-> <<>>]
    /\ item_log' = <<>>
    /\ UNCHANGED <<poolVars, textVars, processor, constructed,
                   emotions_rows, emotions_db>>

\* Lines 632-639: the next item; its title is read outside the try.
ItemStart(hint, has_title, has_content) ==
    /\ processor = "gemini"
    /\ stage = "loop"
    /\ item < MaxItems
    /\ item' = item + 1
    /\ cur' = [NewItem EXCEPT !.hint = hint, !.has_title = has_title,
                              !.has_content = has_content]
    /\ stage' = IF has_title THEN "category" ELSE "aborted"
    /\ batchFrame
    /\ UNCHANGED <<cap_attempt, processed_memes, processed_categories,
                   item_log>>

\* Lines 644-652, and 712-714 when the item has no content field.
StepCategory(reply, calls) ==
    /\ stage = "category"
    /\ IF ~cur.has_content
       THEN /\ SkipItem("failed")
            /\ UNCHANGED cur
       ELSE LET c == CategoryOf(reply, cur.hint)
            IN  /\ cur' = [cur EXCEPT
                              !.category = c.category,
                              !.category_from = c.from,
                              !.llm_calls = @ + calls,
                              !.failed = IF reply.kind = "raise"
                                         THEN @ \cup {"category"} ELSE @]
                /\ IF c.category \notin major_categories
                   THEN SkipItem("skipped")
                   ELSE stage' = "summary" /\ UNCHANGED item_log
    /\ batchFrame
    /\ UNCHANGED <<item, cap_attempt, processed_memes, processed_categories>>

\* Lines 656-661.
StepSummary(reply, calls) ==
    /\ stage = "summary"
    /\ cur' = [cur EXCEPT
                   !.summary = SummaryOf(reply),
                   !.llm_calls = @ + calls,
                   !.failed = IF reply.kind = "raise"
                              THEN @ \cup {"summary"} ELSE @]
    /\ stage' = "emotion"
    /\ batchFrame
    /\ UNCHANGED <<item, cap_attempt, processed_memes, processed_categories,
                   item_log>>

\* Lines 665-666.
StepEmotion(reply, calls) ==
    /\ stage = "emotion"
    /\ LET e == EmotionOf(reply, emotions_db)
       IN  cur' = [cur EXCEPT
                      !.detected = IF reply.kind = "text"
                                   THEN reply.value ELSE "none",
                      !.label = e.label,
                      !.emotion_id = e.emotion_id,
                      !.confidence = e.confidence,
                      !.llm_calls = @ + calls,
                      !.failed = IF reply.kind = "raise"
                                 THEN @ \cup {"emotion"} ELSE @]
    /\ stage' = "template"
    /\ batchFrame
    /\ UNCHANGED <<item, cap_attempt, processed_memes, processed_categories,
                   item_log>>

\* Lines 670-674 with get_template_from_supabase: the table holds `table`
\* when it is queried, and the query raises (nothing of the table is seen)
\* or answers.
StepTemplate(table, raises) ==
    /\ stage = "template"
    /\ LET seen == IF raises THEN {} ELSE table
           rows == MemesWithEmotion(seen, cur.emotion_id)
       IN  \E t \in (IF rows = {} THEN {NoTemplate} ELSE rows) :
              /\ cur' = [cur EXCEPT !.table = seen, !.template = t]
              /\ IF t.image_path = ""
                 THEN SkipItem("skipped")
                 ELSE stage' = "download" /\ UNCHANGED item_log
    /\ batchFrame
    /\ UNCHANGED <<item, cap_attempt, processed_memes, processed_categories>>

\* Lines 678-682 with download_template_as_base64; the table is out of
\* sight from here on.
StepDownload(ok) ==
    /\ stage = "download"
    /\ IF ok
       THEN stage' = "captions" /\ UNCHANGED item_log
       ELSE SkipItem("skipped")
    /\ cur' = [cur EXCEPT !.table = {}]
    /\ cap_attempt' = 0
    /\ batchFrame
    /\ UNCHANGED <<item, processed_memes, processed_categories>>

\* Lines 686-692 with one turn of the loop of generate_meme_captions
\* (lines 459-492): the call fails, its answer cannot be parsed into two
\* captions, or two captions come back.
StepCaptions(outcome, calls) ==
    /\ stage = "captions"
    /\ IF outcome = "ok"
       THEN /\ cur' = [cur EXCEPT !.captions = "llm",
                                  !.llm_calls = @ + calls]
            /\ stage' = "hashtags"
            /\ cap_attempt' = 0
            /\ UNCHANGED item_log
       ELSE IF cap_attempt + 1 < max_attempts
       THEN /\ cap_attempt' = cap_attempt + 1
            /\ cur' = [cur EXCEPT !.llm_calls = @ + calls]
            /\ UNCHANGED <<stage, item_log>>
       ELSE /\ cur' = [cur EXCEPT !.failed = @ \cup {"captions"},
                                  !.llm_calls = @ + calls]
            /\ SkipItem("failed")
            /\ cap_attempt' = 0
    /\ batchFrame
    /\ UNCHANGED <<item, processed_memes, processed_categories>>

\* Lines 696-710 with generate_hashtags, and 712-714 should it raise.
StepHashtags(reply, calls) ==
    /\ stage = "hashtags"
    /\ LET h == HashtagsOf(reply)
       IN  /\ cur' = [cur EXCEPT
                         !.hashtags = h,
                         !.llm_calls = @ + calls,
                         !.failed = IF reply.kind = "raise"
                                    THEN @ \cup {"hashtags"} ELSE @]
           /\ IF h = "raise"
              THEN /\ SkipItem("failed")
                   /\ UNCHANGED processed_memes
              ELSE /\ processed_memes' = Append(processed_memes, item)
                   /\ item_log' = Append(item_log, "emitted")
                   /\ stage' = "loop"
    /\ batchFrame
    /\ UNCHANGED <<item, cap_attempt, processed_categories>>

\* Lines 716-727: the loop is over and the list is returned.
Finish ==
    /\ processor = "gemini"
    /\ stage = "loop"
    /\ item = MaxItems
    /\ stage' = "returned"
    /\ cur' = NewItem
    /\ batchFrame
    /\ UNCHANGED <<item, cap_attempt, processed_memes, processed_categories,
                   item_log>>

(***************************************************************************)
(* process_news_with_images                                                *)
(***************************************************************************)

\* A reply of the Ollama endpoint with a status other than 200.
HttpError == [kind |-> "http_error", value |-> "none"]

\* Lines 288-289: the next item; its title is read outside the try.
OllamaItemStart(hint, has_title, has_content) ==
    /\ processor = "ollama"
    /\ stage = "loop"
    /\ item < MaxItems
    /\ item' = item + 1
    /\ cur' = [NewItem EXCEPT !.hint = hint, !.has_title = has_title,
                              !.has_content = has_content]
    /\ stage' = IF has_title THEN "o_category" ELSE "aborted"
    /\ batchFrame
    /\ UNCHANGED <<cap_attempt, processed_memes, processed_categories,
                   item_log>>

\* Lines 292-297, and 327-330 when the item has no content field.
OllamaCategory(reply) ==
    /\ stage = "o_category"
    /\ IF ~cur.has_content
       THEN /\ SkipItem("failed")
            /\ UNCHANGED cur
       ELSE LET c == CategoryOf(reply, cur.hint)
            IN  /\ cur' = [cur EXCEPT
                              !.category = c.category,
                              !.category_from = c.from,
                              !.failed = IF reply.kind # "text"
                                         THEN @ \cup {"category"} ELSE @]
                /\ IF c.category \notin major_categories
                   THEN SkipItem("skipped")
                   ELSE stage' = "o_buzzy" /\ UNCHANGED item_log
    /\ batchFrame
    /\ UNCHANGED <<item, cap_attempt, processed_memes, processed_categories>>

\* Lines 300-325 with create_buzzy_summary_with_captions: the summary, then
\* the captions (valid of them the answer held; none when the request
\* failed), then the emojis; len is the length of the final summary.
OllamaBuzzy(reply, valid, len) ==
    /\ stage = "o_buzzy"
    /\ LET s == SummaryOf(reply)
       IN  IF valid < 2
           THEN /\ cur' = [cur EXCEPT
                              !.summary = s,
                              !.failed = @ \cup {"captions"}]
                /\ SkipItem("skipped")
                /\ UNCHANGED <<processed_memes, processed_categories>>
           ELSE /\ cur' = [cur EXCEPT
                              !.summary = s,
                              !.summary_len = len,
                              !.captions = "llm"]
                /\ processed_categories' =
                       [processed_categories EXCEPT ![cur.category] =
                           Append(@, [item |-> item, len |-> len])]
                /\ processed_memes' = Append(processed_memes, item)
                /\ item_log' = Append(item_log, "emitted")
                /\ stage' = "loop"
    /\ batchFrame
    /\ UNCHANGED <<item, cap_attempt>>

\* list.sort(key = len of the summary, reverse = True): stable, the longer
\* summaries first.
RECURSIVE SortByLength(_)
SortByLength(s) ==
    IF s = <<>>
    THEN <<>>
    ELSE LET rest == SortByLength(SubSeq(s, 1, Len(s) - 1))
             x    == s[Len(s)]
             k    == Cardinality({j \in DOMAIN rest : rest[j].len >= x.len})
         IN  SubSeq(rest, 1, k) \o <<x>> \o SubSeq(rest, k + 1, Len(rest))

\* Lines 333-340: every category sorted, cut to 10, and kept when it has 3
\* items or more.
FilteredCategories(pc0) ==
    [c \in major_categories |->
        LET sorted == SortByLength(pc0[c])
            cut    == IF Len(sorted) > PerCategoryCap
                      THEN SubSeq(sorted, 1, PerCategoryCap) ELSE sorted
        IN  IF Len(cut) >= MinCategorySize THEN cut ELSE <<>>]

\* Lines 332-347: the loop is over and the categories are returned.
OllamaFinish ==
    /\ processor = "ollama"
    /\ stage = "loop"
    /\ item = MaxItems
    /\ processed_categories' = FilteredCategories(processed_categories)
    /\ stage' = "returned"
    /\ cur' = NewItem
    /\ batchFrame
    /\ UNCHANGED <<item, cap_attempt, processed_memes, item_log>>

(***************************************************************************)
(* The scraper: texts are strings, handled character by character.         *)
(***************************************************************************)

\* Largest number of articles scraped in one run.
MaxNews == 2

\* buzz_score = 1, the base score of every article.
BaseScore == 1

\* min(buzz_score, 15)
ScoreCap == 15

\* len(content) > 50
ShortContent == 50

\* len(content) > 150
LongContent == 150

\* len(title) > 30
LongTitle == 30

\* len(clean_content) < 20
MinListing == 20

\* content_normalized[:len(title_normalized) + 50]
TitleWindow == 50

\* len(title) < 10
MinTitle == 10

\* len(final_content) < 15
MinContent == 15

UpperLetters == "ABCDEFGHIJKLMNOPQRSTUVWXYZ"

LowerLetters == "abcdefghijklmnopqrstuvwxyz"

Digits == "0123456789"

CharAt(s, i) == SubSeq(s, i, i)

\* str.lower() of one character.
LowerChar(c) ==
    IF \E i \in 1 .. Len(UpperLetters) : CharAt(UpperLetters, i) = c
    THEN CharAt(LowerLetters,
                CHOOSE i \in 1 .. Len(UpperLetters) : CharAt(UpperLetters, i) = c)
    ELSE c

\* str.lower()
RECURSIVE StrLower(_)
StrLower(s) ==
    IF Len(s) = 0 THEN ""
    ELSE IF Len(s) = 1 THEN LowerChar(s)
    ELSE LET half == Len(s) \div 2
         IN  StrLower(SubSeq(s, 1, half)) \o
                 StrLower(SubSeq(s, half + 1, Len(s)))

\* keyword in text
Contains(text, keyword) ==
    \E i \in 1 .. (Len(text) - Len(keyword) + 1) :
        SubSeq(text, i, i + Len(keyword) - 1) = keyword

\* text.startswith(prefix)
StartsWith(text, prefix) ==
    /\ Len(prefix) <= Len(text)
    /\ SubSeq(text, 1, Len(prefix)) = prefix

\* char.isspace() for the white space of the texts of this model.
IsSpace(c) == c \in {" ", "\n", "\t"}

\* str.strip(): the white space at both ends removed.
Strip(s) ==
    LET inked == {i \in 1 .. Len(s) : ~IsSpace(CharAt(s, i))}
    IN  IF inked = {} THEN ""
        ELSE SubSeq(s, CHOOSE i \in inked : \A j \in inked : i <= j,
                       CHOOSE i \in inked : \A j \in inked : j <= i)

\* char.isalnum() or char.isspace()
IsAlnumOrSpace(c) ==
    \/ IsSpace(c)
    \/ \E i \in 1 .. Len(LowerLetters) :
          c = CharAt(LowerLetters, i) \/ c = CharAt(UpperLetters, i)
    \/ \E i \in 1 .. Len(Digits) : c = CharAt(Digits, i)

\* ''.join(char.lower() for char in s if char.isalnum() or char.isspace())
\* followed by strip()
RECURSIVE KeepAlnumLower(_)
KeepAlnumLower(s) ==
    IF Len(s) = 0 THEN ""
    ELSE IF Len(s) = 1
    THEN (IF IsAlnumOrSpace(s) THEN LowerChar(s) ELSE "")
    ELSE LET half == Len(s) \div 2
         IN  KeepAlnumLower(SubSeq(s, 1, half)) \o
                 KeepAlnumLower(SubSeq(s, half + 1, Len(s)))

Normalized(s) == Strip(KeepAlnumLower(s))

\* text[:n]
Prefix(text, n) == SubSeq(text, 1, Min2(n, Len(text)))

\* The sum of the points of the keywords of `table` in `hit`.
RECURSIVE SumPoints(_, _)
SumPoints(table, hit) ==
    IF hit = {} THEN 0
    ELSE LET k == CHOOSE x \in hit : TRUE
         IN  table[k] + SumPoints(table, hit \ {k})

target_categories ==
    <<"politics", "movies", "entertainment", "sports", "business",
      "technology">>

TargetSet == {target_categories[i] : i \in DOMAIN target_categories}

high_buzz_words ==
    ("breaking" :> 4) @@ ("exclusive" :> 3) @@ ("shocking" :> 3) @@
    ("controversy" :> 3) @@ ("scandal" :> 3) @@ ("arrest" :> 2) @@
    ("murder" :> 3) @@ ("viral" :> 3) @@ ("trending" :> 2) @@
    ("major" :> 2) @@ ("important" :> 2) @@ ("crisis" :> 2) @@
    ("emergency" :> 2) @@ ("urgent" :> 2) @@ ("alert" :> 2) @@
    ("warning" :> 1) @@ ("wins" :> 2) @@ ("loses" :> 1) @@
    ("victory" :> 2) @@ ("defeat" :> 1) @@ ("new" :> 1)

category_buzz ==
    ("bollywood" :> 2) @@ ("cricket" :> 2) @@ ("election" :> 2) @@
    ("politics" :> 1) @@ ("technology" :> 1) @@ ("business" :> 1) @@
    ("sports" :> 1) @@ ("movie" :> 1) @@ ("celebrity" :> 1) @@
    ("actor" :> 1) @@ ("match" :> 1) @@ ("win" :> 1) @@ ("lose" :> 1) @@
    ("ipl" :> 2) @@ ("box office" :> 2) @@ ("release" :> 1) @@
    ("hit" :> 1) @@ ("flop" :> 1) @@ ("update" :> 1) @@ ("news" :> 1) @@
    ("latest" :> 1) @@ ("today" :> 1)

question_words == {"how", "why", "what", "when", "where"}

\* return buzz_score, the cap forgotten.
Uncapped(buzz_score) == buzz_score

\* min(buzz_score, 15)
Capped(buzz_score) == Min2(buzz_score, ScoreCap)

\* calculate_buzz_score
calculate_buzz_score(title, content) ==
    LET text == StrLower(title \o " " \o content)
        high == {k \in DOMAIN high_buzz_words : Contains(text, k)}
        cat  == {k \in DOMAIN category_buzz : Contains(text, k)}
        low_title == StrLower(title)
    IN  Capped(BaseScore
               + SumPoints(high_buzz_words, high)
               + SumPoints(category_buzz, cat)
               + (IF Len(content) > ShortContent THEN 1 ELSE 0)
               + (IF Len(content) > LongContent THEN 1 ELSE 0)
               + (IF \E w \in question_words : Contains(low_title, w)
                  THEN 1 ELSE 0)
               + (IF Len(title) > LongTitle THEN 1 ELSE 0))

category_keywords ==
    <<[category |-> "politics",
       keywords |-> {"election", "parliament", "minister", "government",
                     "political", "bjp", "congress", "modi", "politics",
                     "vote", "party", "constituency", "leader", "pm",
                     "chief minister"}],
      [category |-> "movies",
       keywords |-> {"movie", "film", "actor", "actress", "bollywood",
                     "cinema", "box office", "trailer", "director",
                     "producer", "release", "star", "role", "shoot",
                     "debut"}],
      [category |-> "entertainment",
       keywords |-> {"entertainment", "celebrity", "music", "tv show",
                     "award", "concert", "performance", "artist", "singer",
                     "album", "show", "reality", "dance", "talent"}],
      [category |-> "sports",
       keywords |-> {"cricket", "football", "sports", "match", "player",
                     "ipl", "olympics", "tournament", "team", "game",
                     "score", "win", "lose", "champion", "league"}],
      [category |-> "business",
       keywords |-> {"business", "market", "stock", "economy", "startup",
                     "investment", "ipo", "company", "profit", "revenue",
                     "financial", "bank", "money", "price", "growth"}],
      [category |-> "technology",
       keywords |-> {"technology", "tech", "ai", "software", "app",
                     "smartphone", "digital", "internet", "gadget",
                     "innovation", "cyber", "data", "android", "apple",
                     "google"}]>>

\* sum(1 if keyword in text else 0 for keyword in keywords)
KeywordScore(text, keywords) ==
    Cardinality({k \in keywords : Contains(text, k)})

\* No category hint: None.
NoCategory == "none"

\* category_scores of lines 143-146: the number of keywords of every
\* category, in the order of the dict, in the lower-cased title + ' ' +
\* content.
ScoreVector(title, content) ==
    LET text == StrLower(title \o " " \o content)
    IN  [i \in DOMAIN category_keywords |->
            KeywordScore(text, category_keywords[i].keywords)]

\* clean_and_decide_content
clean_and_decide_content(title, extracted_content) ==
    LET clean_title   == Strip(title)
        clean_content == Strip(extracted_content)
        title_normalized   == Normalized(clean_title)
        content_normalized == Normalized(clean_content)
    IN  IF Len(clean_content) < MinListing
        THEN clean_title
        ELSE IF \/ StartsWith(content_normalized, title_normalized)
                \/ Contains(Prefix(content_normalized,
                                   Len(title_normalized) + TitleWindow),
                            title_normalized)
        THEN clean_content
        ELSE IF Len(clean_title) > Len(clean_content)
        THEN clean_title
        ELSE IF Len(clean_content) > Len(clean_title)
        THEN clean_content ELSE clean_title

\* The link texts of the scraped pages.
Titles ==
    {"Breaking scandal viral murder wins Election award show",
     "Breaking scandal viral murder wins Election award show today",
     "Quiet story",
     "Quiet"}

LongListing ==
    "Exclusive crisis news in a quiet story. " \o
    "Exclusive crisis news in a quiet story. " \o
    "Exclusive crisis news in a quiet story. " \o
    "Exclusive crisis news in a quiet story. "

\* The texts found next to a link: none, a long one, a short one, one that
\* begins with the link text.
Listings ==
    {"", LongListing, "Quiet update on the market",
     "Quiet story: the market today"}

\* source_config.get('category')
SourceCategories == {"politics", "trending", NoCategory}

\* final_content of every link of this model (line 223).
ContentRows ==
    {<<in[1], in[2], clean_and_decide_content(in[1], in[2])>> :
         in \in Titles \X Listings}

ContentOf(title, listing) ==
    (CHOOSE row \in ContentRows : row[1] = title /\ row[2] = listing)[3]

\* category_scores and the buzz score of every (title, final_content) of
\* this model.
TextRows ==
    {<<row[1], row[3], ScoreVector(row[1], row[3]),
       calculate_buzz_score(row[1], row[3])>> : row \in ContentRows}

\* category_scores for one (title, content).
category_scores(title, content) ==
    (CHOOSE row \in TextRows : row[1] = title /\ row[2] = content)[3]

\* buzz_score of line 236.
BuzzOf(title, content) ==
    (CHOOSE row \in TextRows : row[1] = title /\ row[2] = content)[4]

\* The first category, in the order of the dict, that has a keyword in the
\* text; the first of the dict when none has.
FirstMatching(scores) ==
    IF \A i \in DOMAIN scores : scores[i] = 0 THEN 1
    ELSE CHOOSE i \in DOMAIN scores :
             /\ scores[i] > 0
             /\ \A j \in DOMAIN scores : scores[j] > 0 => i <= j

\* max(category_scores, key=category_scores.get): the first category, in the
\* order of the dict, among those of the highest score.
BestCategory(scores) ==
    CHOOSE i \in DOMAIN scores :
        /\ \A j \in DOMAIN scores : scores[j] <= scores[i]
        /\ \A j \in DOMAIN scores : scores[j] = scores[i] => i <= j

\* categorize_news_content with its shortcut for a known hint left out.
CategorizeIgnoringHint(title, content, source_category) ==
    LET scores == category_scores(title, content)
        best   == BestCategory(scores)
    IN  IF scores[best] > 0
        THEN category_keywords[best].category
        ELSE IF source_category \in TargetSet
        THEN source_category ELSE "entertainment"

\* categorize_news_content
categorize_news_content(title, content, source_category) ==
    LET scores == category_scores(title, content)
        best   == BestCategory(scores)
    IN  IF source_category # NoCategory /\ source_category \in TargetSet
        THEN source_category
        ELSE IF scores[best] > 0
        THEN category_keywords[best].category
        ELSE IF source_category \in TargetSet
        THEN source_category ELSE "entertainment"

\* hashlib.md5(...).hexdigest(): equal digests for equal texts, and
\* different digests for the different texts of this model.
Md5(text) == <<"md5", text>>

\* The digest taken over title and content.
TitleAndContentKey(news) == Md5(news.title \o news.content)

\* content_hash of remove_duplicates
ContentKey(news) == Md5(news.content)

\* One turn of the loop of remove_duplicates, the item put in front.
DedupStepPrepend(acc, news) ==
    IF ContentKey(news) \notin acc.seen_content
    THEN [unique_news |-> <<news>> \o acc.unique_news,
          seen_content |-> acc.seen_content \cup {ContentKey(news)}]
    ELSE acc

\* One turn of the loop of remove_duplicates, a later item replacing the
\* earlier one of the same digest.
DedupStepKeepLast(acc, news) ==
    [unique_news |->
         Append(SelectSeq(acc.unique_news,
                          LAMBDA u : ContentKey(u) # ContentKey(news)),
                news),
     seen_content |-> acc.seen_content \cup {ContentKey(news)}]

\* One turn of the loop of remove_duplicates.
DedupStep(acc, news) ==
    IF ContentKey(news) \notin acc.seen_content
    THEN [unique_news |-> Append(acc.unique_news, news),
          seen_content |-> acc.seen_content \cup {ContentKey(news)}]
    ELSE acc

\* The loop of remove_duplicates over the first k items.
RECURSIVE DedupLoop(_, _)
DedupLoop(news_list, k) ==
    IF k = 0
    THEN [unique_news |-> <<>>, seen_content |-> {}]
    ELSE DedupStep(DedupLoop(news_list, k - 1), news_list[k])

remove_duplicates(news_list) ==
    DedupLoop(news_list, Len(news_list)).unique_news

\* What lines 222-254 make of one link: the record appended to news_list.
\* title is the link text the record was made from (the record itself has
\* no such key), source_category the category of the source's
\* configuration.
ScrapedItem(title, listing, source_category) ==
    LET final_content == ContentOf(title, listing)
    IN  [title |-> title,
         content |-> final_content,
         category |-> categorize_news_content(title, final_content,
                                              source_category),
         buzz_score |-> BuzzOf(title, final_content),
         source_category |-> source_category,
         url |-> "https://news.example/" \o title,
         image_path |-> "None"]

\* No link has been looked at.
NoLink ==
    [verdict |-> "none", title |-> "", source_category |-> NoCategory,
     content |-> "", category |-> NoCategory, buzz_score |-> 0]

\* Where the loop body of lines 192-254 leaves one link: passed over for its
\* title (196), its href (218), its content (225) or its category (232), or
\* appended (247).
Verdict(title, news, href_ok) ==
    IF Len(title) < MinTitle THEN "short_title"
    ELSE IF ~href_ok THEN "bad_href"
    ELSE IF Len(news.content) < MinContent THEN "short_content"
    ELSE IF news.category \notin TargetSet THEN "off_target"
    ELSE "appended"

\* Lines 192-254 for one link: the article is appended, or the link is
\* passed over.  link keeps what the body had computed when it left.
ScrapeLink(title, listing, source_category, href_ok) ==
    /\ scrape_stage = "scraping"
    /\ Len(all_news) < MaxNews
    /\ LET news    == ScrapedItem(title, listing, source_category)
           verdict == Verdict(title, news, href_ok)
       IN  /\ all_news' = IF verdict = "appended"
                          THEN Append(all_news, news) ELSE all_news
           /\ link' = [verdict |-> verdict,
                       title |-> title,
                       source_category |-> source_category,
                       content |-> IF verdict \in {"short_title", "bad_href"}
                                   THEN "" ELSE news.content,
                       category |-> IF verdict \in {"off_target", "appended"}
                                    THEN news.category ELSE NoCategory,
                       buzz_score |-> IF verdict = "appended"
                                      THEN news.buzz_score ELSE 0]
    /\ UNCHANGED <<scrape_stage, unique_news, final_categorized_news>>
    /\ UNCHANGED <<poolVars, batchVars, parseVars>>

\* get_all_news, line 376.
Deduplicate ==
    /\ scrape_stage = "scraping"
    /\ unique_news' = remove_duplicates(all_news)
    /\ scrape_stage' = "deduped"
    /\ link' = NoLink
    /\ UNCHANGED <<all_news, final_categorized_news>>
    /\ UNCHANGED <<poolVars, batchVars, parseVars>>

(***************************************************************************)
(* get_all_news after the removal of duplicates (lines 378-425)            *)
(***************************************************************************)

\* len(category_news) >= 10, category_news[:10], 10 - len(selected_news)
ArticlesPerCategory == 10

\* final_categorized_news before the loop of line 391 has filled it.
NotOrganized == <<>>

\* categorized_news[category] after the grouping of lines 384-387.
GroupedNews(news_list, category) ==
    SelectSeq(news_list, LAMBDA news : news.category = category)

\* list.sort(key=buzz_score, reverse=True): the higher score first, items
\* of equal score in the order they had.
RECURSIVE SortByBuzz(_)
SortByBuzz(s) ==
    IF s = <<>>
    THEN <<>>
    ELSE LET rest == SortByBuzz(SubSeq(s, 1, Len(s) - 1))
             x    == s[Len(s)]
             k    == Cardinality({j \in DOMAIN rest :
                                      rest[j].buzz_score >= x.buzz_score})
         IN  SubSeq(rest, 1, k) \o <<x>> \o SubSeq(rest, k + 1, Len(rest))

CategoryIndex(category) ==
    CHOOSE i \in DOMAIN target_categories : target_categories[i] = category

\* categorized_news['entertainment'] as the turn of `category` finds it:
\* the turn of 'entertainment' has sorted the list in place when it held 10
\* or more.
EntertainmentNews(news_list, category) ==
    LET grouped == GroupedNews(news_list, "entertainment")
    IN  IF /\ CategoryIndex(category) > CategoryIndex("entertainment")
           /\ Len(grouped) >= ArticlesPerCategory
        THEN SortByBuzz(grouped) ELSE grouped

\* The free places of a short category are filled from all the news.
SelectedFromAll(news_list, category) ==
    LET category_news == GroupedNews(news_list, category)
        extras == SubSeq(news_list, 1,
                         Min2(ArticlesPerCategory - Len(category_news),
                              Len(news_list)))
    IN  IF Len(category_news) >= ArticlesPerCategory
        THEN SubSeq(SortByBuzz(category_news), 1, ArticlesPerCategory)
        ELSE IF category # "entertainment"
        THEN category_news \o extras
        ELSE category_news

\* selected_news of lines 392-407.
SelectedNews(news_list, category) ==
    LET category_news == GroupedNews(news_list, category)
        candidates ==
            SelectSeq(EntertainmentNews(news_list, category),
                      LAMBDA n : \A k \in DOMAIN category_news :
                                     category_news[k] # n)
        extras == SubSeq(candidates, 1,
                         Min2(ArticlesPerCategory - Len(category_news),
                              Len(candidates)))
    IN  IF Len(category_news) >= ArticlesPerCategory
        THEN SubSeq(SortByBuzz(category_news), 1, ArticlesPerCategory)
        ELSE IF category # "entertainment"
        THEN category_news \o extras
        ELSE category_news

\* The record of lines 413-417.
CleanNews(news) ==
    [content |-> news.content, url |-> news.url,
     image_path |-> news.image_path]

\* final_categorized_news of lines 390-419.
FinalCategorizedNews(news_list) ==
    [category \in TargetSet |->
        LET selected_news == SelectedNews(news_list, category)
        IN  [k \in DOMAIN selected_news |-> CleanNews(selected_news[k])]]

\* get_all_news, lines 378-425.
Organize ==
    /\ scrape_stage = "deduped"
    /\ final_categorized_news' = FinalCategorizedNews(unique_news)
    /\ scrape_stage' = "returned"
    /\ link' = NoLink
    /\ UNCHANGED <<all_news, unique_news>>
    /\ UNCHANGED <<poolVars, batchVars, parseVars>>

\* Most articles one category has in the pages of a run.
MaxPerCategory == 12

Scores == 5

\* An article as scrape_single_source_with_images returns it: the n-th of
\* its category, with a score that does not follow the order of the page.
Article(category, n) ==
    [title |-> "Headline number " \o ToString(n),
     content |-> category \o " story number " \o ToString(n),
     url |-> "https://news.example/" \o category \o "/" \o ToString(n),
     image_path |-> "None",
     category |-> category,
     buzz_score |-> BaseScore + ((n * 3) % Scores),
     source_category |-> category]

Articles(category, count) == [n \in 1 .. count |-> Article(category, n)]

\* The same text under another address.
Reprint(news) == [news EXCEPT !.url = @ \o "?again"]

\* What the sources of a run give: some articles of politics, sports and
\* entertainment, and when `again` a second copy of the first one.
ScrapedNews(politics, sports, entertainment, again) ==
    LET news_list == Articles("politics", politics) \o
                     Articles("sports", sports) \o
                     Articles("entertainment", entertainment)
    IN  IF again /\ news_list # <<>>
        THEN Append(news_list, Reprint(news_list[1])) ELSE news_list

FewPolitics == 3

(***************************************************************************)
(* The caption parsers.                                                    *)
(***************************************************************************)

\* str.strip(chars) for one character.
StripChar(s, c) ==
    LET other == {i \in 1 .. Len(s) : CharAt(s, i) # c}
    IN  IF other = {} THEN ""
        ELSE SubSeq(s, CHOOSE i \in other : \A j \in other : i <= j,
                       CHOOSE i \in other : \A j \in other : j <= i)

\* str(item).strip().strip('"').strip("'")
Unquoted(s) == StripChar(StripChar(Strip(s), "\""), "'")

\* s.find(c) from position `from` on, counted from 1; 0 when there is none.
IndexOf(s, c, from) ==
    LET at == {i \in from .. Len(s) : CharAt(s, i) = c}
    IN  IF at = {} THEN 0 ELSE CHOOSE i \in at : \A j \in at : i <= j

\* s.rfind(c), counted from 1; 0 when there is none.
LastIndexOf(s, c) ==
    LET at == {i \in 1 .. Len(s) : CharAt(s, i) = c}
    IN  IF at = {} THEN 0 ELSE CHOOSE i \in at : \A j \in at : j <= i

\* The positions where a word of s begins.
WordStarts(s) ==
    {i \in 1 .. Len(s) :
         ~IsSpace(CharAt(s, i)) /\ (i = 1 \/ IsSpace(CharAt(s, i - 1)))}

\* len(s.split())
WordCount(s) == Cardinality(WordStarts(s))

\* The word of s that begins at position i.
WordAt(s, i) ==
    LET ends == {j \in i .. Len(s) :
                     j = Len(s) \/ IsSpace(CharAt(s, j + 1))}
    IN  SubSeq(s, i, CHOOSE j \in ends : \A k \in ends : j <= k)

\* ' '.join(s.split()[:n])
RECURSIVE JoinWords(_, _)
JoinWords(s, n) ==
    LET starts == {i \in WordStarts(s) :
                       Cardinality({j \in WordStarts(s) : j <= i}) <= n}
        last   == CHOOSE i \in starts : \A j \in starts : j <= i
    IN  IF starts = {} THEN ""
        ELSE IF Cardinality(starts) = 1 THEN WordAt(s, last)
        ELSE JoinWords(s, Cardinality(starts) - 1) \o " " \o WordAt(s, last)

\* s.split(sep) for a separator of one character.
RECURSIVE SplitOn(_, _)
SplitOn(s, sep) ==
    LET cut == LastIndexOf(s, sep)
    IN  IF cut = 0 THEN <<s>>
        ELSE Append(SplitOn(SubSeq(s, 1, cut - 1), sep),
                    SubSeq(s, cut + 1, Len(s)))

\* What json.loads makes of a text: whether it parsed, and the items of the
\* list.
JsonNone == [ok |-> FALSE, items |-> <<>>]

\* The items of a JSON array from position i of its inside on: mode says
\* what may come next ("start": an item or the end, "item": an item,
\* "sep": a comma or the end).  The arrays of this model hold strings
\* without escapes; anything else does not parse.
RECURSIVE JsonItems(_, _, _, _)
JsonItems(inner, i, mode, acc) ==
    LET inked == {k \in i .. Len(inner) : ~IsSpace(CharAt(inner, k))}
        p     == CHOOSE k \in inked : \A j \in inked : k <= j
        q     == IndexOf(inner, "\"", p + 1)
    IN  IF inked = {}
        THEN (IF mode = "item" THEN JsonNone ELSE [ok |-> TRUE, items |-> acc])
        ELSE IF mode = "sep"
        THEN (IF CharAt(inner, p) = ","
              THEN JsonItems(inner, p + 1, "item", acc) ELSE JsonNone)
        ELSE IF CharAt(inner, p) = "\"" /\ q # 0
        THEN JsonItems(inner, q + 1, "sep",
                       Append(acc, SubSeq(inner, p + 1, q - 1)))
        ELSE JsonNone

\* json.loads of a text cut from '[' to ']'.
json_loads(json_text) ==
    JsonItems(SubSeq(json_text, 2, Len(json_text) - 1), 1, "start", <<>>)

\* The regular expression "([^"]+)"|'([^']+)' matches at position p.
QuoteMatchAt(s, p) ==
    /\ CharAt(s, p) \in {"\"", "'"}
    /\ IndexOf(s, CharAt(s, p), p + 1) > p + 1

\* re.findall of that expression from position i on: the quoted texts.
RECURSIVE QuotedFrom(_, _)
QuotedFrom(s, i) ==
    LET starts == {p \in i .. Len(s) : QuoteMatchAt(s, p)}
        p      == CHOOSE k \in starts : \A j \in starts : k <= j
        q      == IndexOf(s, CharAt(s, p), p + 1)
    IN  IF starts = {} THEN <<>>
        ELSE <<SubSeq(s, p + 1, q - 1)>> \o QuotedFrom(s, q + 1)

\* [f(x) for x in seq]
StripAll(seq) == [k \in DOMAIN seq |-> Strip(seq[k])]

\* Method 2 of extract_dialogue_captions: the quoted texts of two words or
\* more.
QuotedDialogues(response_text) ==
    StripAll(SelectSeq(QuotedFrom(response_text, 1),
                       LAMBDA caption : WordCount(caption) >= 2))

MinDialogueWords == 2

MaxPatternWords == 10

\* group(1) of the first of dialogue_patterns that matches the line, ""
\* when none does.
PatternGroup(line) ==
    LET low == StrLower(line)
        n   == Len(line)
    IN  IF /\ n >= 3
           /\ CharAt(line, 1) \in {"1", "2", "3", "4", "5", "6", "7", "8", "9"}
           /\ CharAt(line, 2) = "."
        THEN Strip(SubSeq(line, 3, n))
        ELSE IF n >= 2 /\ CharAt(line, 1) \in {"-", "*"}
        THEN Strip(SubSeq(line, 2, n))
        ELSE IF \E k \in 2 .. (n - 1) : CharAt(line, k) = ":"
        THEN line
        ELSE IF \/ StartsWith(low, "when ") /\ n > 5
                \/ StartsWith(low, "me ") /\ n > 3
                \/ StartsWith(low, "pov:") /\ n > 4
                \/ StartsWith(low, "that ") /\ n > 5
        THEN line
        ELSE ""

\* Method 3 of extract_dialogue_captions over the lines from k on.
RECURSIVE PatternFrom(_, _)
PatternFrom(lines, k) ==
    IF k > Len(lines) THEN <<>>
    ELSE LET dialogue == Unquoted(PatternGroup(Strip(lines[k])))
         IN  (IF WordCount(dialogue) \in MinDialogueWords .. MaxPatternWords
              THEN <<dialogue>> ELSE <<>>) \o PatternFrom(lines, k + 1)

PatternDialogues(response_text) ==
    PatternFrom(SplitOn(response_text, "\n"), 1)

\* The fewest captions an extraction must hold to be returned.
MinCaptions == 2

\* json.loads of what re.search(r'\[.*?\]', response_text, re.DOTALL)
\* finds: the text from the first '[' to the first ']' after it.
FirstArray(response_text) ==
    LET a == IndexOf(response_text, "[", 1)
        b == IF a = 0 THEN 0 ELSE IndexOf(response_text, "]", a + 1)
    IN  IF b = 0 THEN JsonNone ELSE json_loads(SubSeq(response_text, a, b))

\* Method 1 of extract_dialogue_captions: the items of the array.
JsonDialogues(response_text) ==
    LET parsed == FirstArray(response_text)
    IN  [k \in DOMAIN parsed.items |-> Unquoted(parsed.items[k])]

\* extract_dialogue_captions: captions is one list that the three methods
\* fill one after the other.
extract_dialogue_captions(response_text) ==
    LET method1 == JsonDialogues(response_text)
        method2 == method1 \o QuotedDialogues(response_text)
        method3 == method2 \o PatternDialogues(response_text)
    IN  IF Len(method1) >= MinCaptions THEN method1
        ELSE IF Len(method2) >= MinCaptions THEN method2
        ELSE IF Len(method3) >= MinCaptions THEN SubSeq(method3, 1, 2)
        ELSE <<>>

\* The answers of the model to a dialogue prompt: an array of two captions,
\* an array of one, two quoted texts, one quoted text on a dashed line, one
\* quoted text and one dashed line, two numbered lines, plain prose, a
\* bracket that is no array, quoted single words, arrays of single words
\* and of one caption and one word, the empty array, an array with a
\* caption of more than eight words, prose with one quoted text.
GeminiTexts ==
    {"[\"When Monday hits hard\", \"Me pretending to work\"]",
     "[\"Only one caption\"]",
     "Try \"big news today\" or 'so it goes'",
     "- \"hello world\"",
     "She said \"not again\"\n- Classic Monday mood",
     "1. When the bill arrives\n2. Me checking my wallet",
     "I cannot help with this request",
     "[citation needed] nothing here",
     "\"Yes\" and \"No\"",
     "[\"Wow\", \"Nice\"]",
     "[\"Stonks only go up\", \"Sad\"]",
     "[]",
     "[\"one two three four five six seven eight nine ten\", \"Me too\"]",
     "Just \"one caption here\" for you"}

\* if 3 <= len(words) <= 8
MinGoodWords == 3

\* words[:8]
MaxDialogueWords == 8

\* A caption keeps all its words, however many.
DialogueUncut(caption) ==
    LET n == WordCount(caption)
    IN  IF n >= MinDialogueWords THEN JoinWords(caption, n) ELSE ""

\* What lines 472-479 of generate_meme_captions make of one caption: its
\* words joined by blanks, the first eight of them when it has more, and
\* nothing ("") when it has fewer than two.
DialogueOf(caption) ==
    LET n == WordCount(caption)
    IN  IF n \in MinGoodWords .. MaxDialogueWords THEN JoinWords(caption, n)
        ELSE IF n > MaxDialogueWords THEN JoinWords(caption, MaxDialogueWords)
        ELSE IF n >= MinDialogueWords THEN JoinWords(caption, n)
        ELSE ""

\* final_dialogues of lines 470-479, made of captions[:2].
FinalDialogues(found) ==
    LET first == SubSeq(found, 1, Min2(2, Len(found)))
    IN  SelectSeq([k \in DOMAIN first |-> DialogueOf(first[k])],
                  LAMBDA d : d # "")

MinCaptionWords == 6

MaxCaptionWords == 12

MinCaptionLength == 10

\* The validation of parse_llm_captions.  The texts of this model are
\* ASCII, so that all(ord(char) < 128 ...) holds of each.
ValidCaption(caption_text) ==
    /\ WordCount(caption_text) \in MinCaptionWords .. MaxCaptionWords
    /\ Len(caption_text) > MinCaptionLength

\* for prefix in [...]: if line.lower().startswith(prefix.lower()): ...
\* (The sixth prefix of the list, a bullet, is no ASCII character and cannot
\* occur in the texts of this model.)
caption_prefixes ==
    <<"1.", "2.", "3.", "-", "*", "Caption:", "caption:">>

RECURSIVE WithoutPrefixes(_, _)
WithoutPrefixes(line, k) ==
    IF k > Len(caption_prefixes) THEN line
    ELSE IF StartsWith(StrLower(line), StrLower(caption_prefixes[k]))
    THEN WithoutPrefixes(
             Strip(SubSeq(line, Len(caption_prefixes[k]) + 1, Len(line))),
             k + 1)
    ELSE WithoutPrefixes(line, k + 1)

\* text.endswith(suffix)
EndsWith(text, suffix) ==
    /\ Len(suffix) <= Len(text)
    /\ SubSeq(text, Len(text) - Len(suffix) + 1, Len(text)) = suffix

\* The code fence of three backticks; a string of this language cannot hold
\* a backtick, and a tilde stands for it in the texts of this model.
Fence == "~~~"

\* cleaned_response[7:]
FencePrefix == 7

\* captions_array[:3] and captions[:3]
MaxCaptions == 3

\* cleaned_response of parse_llm_captions.
CleanedResponse(raw_response) ==
    LET stripped == Strip(raw_response)
        unfenced == IF StartsWith(stripped, Fence)
                    THEN SubSeq(stripped, FencePrefix + 1, Len(stripped))
                    ELSE stripped
    IN  IF EndsWith(unfenced, Fence)
        THEN SubSeq(unfenced, 1, Len(unfenced) - Len(Fence))
        ELSE unfenced

\* Method 2 of parse_llm_captions.
TextCaptions(raw_response) ==
    LET all_lines == SplitOn(raw_response, "\n")
        inked == SelectSeq(all_lines, LAMBDA l : Strip(l) # "")
        lines == [k \in DOMAIN inked |-> Unquoted(inked[k])]
        bare  == [k \in DOMAIN lines |-> WithoutPrefixes(lines[k], 1)]
    IN  SelectSeq(bare, ValidCaption)

\* parse_llm_captions
parse_llm_captions(raw_response) ==
    LET cleaned_response == CleanedResponse(raw_response)
        start_bracket == IndexOf(cleaned_response, "[", 1)
        end_bracket   == LastIndexOf(cleaned_response, "]")
        captions_array ==
            IF start_bracket # 0 /\ start_bracket < end_bracket
            THEN json_loads(SubSeq(cleaned_response, start_bracket,
                                   end_bracket))
            ELSE JsonNone
        head == SubSeq(captions_array.items, 1,
                       Min2(MaxCaptions, Len(captions_array.items)))
        text == TextCaptions(raw_response)
    IN  IF captions_array.ok
        THEN SelectSeq([k \in DOMAIN head |-> Unquoted(head[k])],
                       ValidCaption)
        ELSE SubSeq(text, 1, Min2(MaxCaptions, Len(text)))

\* The answers of the model to the caption prompt of the Ollama endpoint:
\* an array of two captions, the same inside a code fence, an array of one
\* caption and one short text, two numbered lines, prose, an open bracket
\* before one caption line, an array of one caption before a caption line.
OllamaTexts ==
    {"[\"Breaking news nobody asked for arrives right on schedule\", \"The minister promises reform again while everyone checks watches\"]",
     "~~~json\n[\"Breaking news nobody asked for arrives right on schedule\", \"The minister promises reform again while everyone checks watches\"]\n~~~",
     "[\"Breaking news nobody asked for arrives right on schedule\", \"Too short\"]",
     "1. Breaking news nobody asked for arrives right on schedule\n2. The minister promises reform again while everyone checks watches",
     "No captions today",
     "[oops\nBreaking news nobody asked for arrives right on schedule",
     "[\"Breaking news nobody asked for arrives right on schedule\"]\n- The minister promises reform again while everyone checks watches"}

\* What extract_dialogue_captions and lines 470-479 make of every answer of
\* the model.
DialogueRows ==
    {<<t, extract_dialogue_captions(t),
       FinalDialogues(extract_dialogue_captions(t))>> : t \in GeminiTexts}

ExtractedFrom(text) == (CHOOSE row \in DialogueRows : row[1] = text)[2]

FinalFrom(text) == (CHOOSE row \in DialogueRows : row[1] = text)[3]

\* What parse_llm_captions makes of every answer of the model.
OllamaRows == {<<t, parse_llm_captions(t)>> : t \in OllamaTexts}

ParsedFrom(text) == (CHOOSE row \in OllamaRows : row[1] = text)[2]

\* What a caption function gave back: nothing yet, an exception, or a list.
Pending == [kind |-> "pending", value |-> <<>>]

\* No card was rendered.
NoMeme == [dialogues |-> <<>>, description |-> ""]

RaisedFailure == [kind |-> "raised", value |-> <<>>]

Returned(list) == [kind |-> "returned", value |-> list]

\* The check of the caller takes a single caption for a success.
EnoughIfAny(list) == Len(list) >= 1

\* if len(captions) >= 2 (and len(final_dialogues) >= 2)
Enough(list) == Len(list) >= MinCaptions

\* The summary and the emotion generate_meme_captions is called with.
NewsSummary == "Budget day surprises the markets"

Emotion == "sarcasm"

\* dialogue_prompts (lines 394-457): each prompt by its opening and closing
\* lines and the lines that hold the arguments.
dialogue_prompts ==
    <<"You are a professional memer creating viral content. Generate 2 " \o
      "meme dialogue captions for this news:\nNews: \"" \o NewsSummary \o
      "\"\nEmotion: " \o Emotion \o
      "\nReturn ONLY as JSON array:\n[\"caption 1\", \"caption 2\"]",
      "Create 2 meme dialogues about this news. Think like a Gen-Z memer:" \o
      "\nNews: \"" \o NewsSummary \o
      "\"\nJSON format: [\"dialogue 1\", \"dialogue 2\"]",
      "Write 2 meme captions as if you're commenting on this news in a " \o
      "group chat:\nNews: \"" \o NewsSummary \o
      "\"\nReturn: [\"caption 1\", \"caption 2\"]",
      "Generate 2 viral meme captions for: " \o NewsSummary \o
      "\nJSON: [\"caption 1\", \"caption 2\"]">>

\* Every attempt sends the first prompt.
FirstPrompt(loop_attempt) == dialogue_prompts[1]

\* prompt = dialogue_prompts[attempt]
PromptOf(loop_attempt) == dialogue_prompts[loop_attempt + 1]

\* One turn of the loop of generate_meme_captions (lines 459-490), and the
\* raise of line 492 after the last one.
DialogueAttempt(reply) ==
    /\ caption_stage = "dialogue"
    /\ LET answered == reply.kind = "text"
           found    == IF answered THEN ExtractedFrom(reply.value) ELSE <<>>
           final_dialogues ==
                       IF answered THEN FinalFrom(reply.value) ELSE <<>>
       IN  /\ sent_prompts' = Append(sent_prompts, PromptOf(dialogue_attempt))
           /\ raw_responses' = Append(raw_responses, reply)
           /\ captions' = found
           /\ IF answered /\ Enough(found) /\ Enough(final_dialogues)
              THEN /\ returned' = Returned(SubSeq(final_dialogues, 1,
                                             Min2(2, Len(final_dialogues))))
                   /\ caption_stage' = "done"
                   /\ UNCHANGED dialogue_attempt
              ELSE IF dialogue_attempt + 1 < max_attempts
              THEN /\ dialogue_attempt' = dialogue_attempt + 1
                   /\ UNCHANGED <<returned, caption_stage>>
              ELSE /\ returned' = RaisedFailure
                   /\ caption_stage' = "done"
                   /\ UNCHANGED dialogue_attempt
    /\ UNCHANGED <<poolVars, batchVars, all_news, unique_news, scrape_stage,
                   final_categorized_news, link, meme_data,
                   processed_dialogues, returned_hashtags>>

\* call_ollama_for_buzzy_captions from its request on (lines 171-195).
OllamaCaptions(reply) ==
    /\ caption_stage = "ollama"
    /\ LET found == IF reply.kind = "text" THEN ParsedFrom(reply.value)
                    ELSE <<>>
       IN  /\ raw_responses' = Append(raw_responses, reply)
           /\ captions' = found
           /\ returned' = IF reply.kind = "text" /\ Enough(found)
                          THEN Returned(found) ELSE Returned(<<>>)
    /\ caption_stage' = "done"
    /\ UNCHANGED <<dialogue_attempt, sent_prompts>>
    /\ UNCHANGED <<poolVars, batchVars, all_news, unique_news, scrape_stage,
                   final_categorized_news, link, meme_data,
                   processed_dialogues, returned_hashtags>>

\* No caption function runs.
ParseIdle ==
    /\ caption_stage = "off"
    /\ dialogue_attempt = 0
    /\ raw_responses = <<>>
    /\ captions = <<>>
    /\ returned = Pending
    /\ sent_prompts = <<>>
    /\ meme_data = NoMeme
    /\ processed_dialogues = <<>>
    /\ returned_hashtags = <<>>

\* No scraper and no caption function runs.
TextIdle ==
    /\ all_news = <<>>
    /\ unique_news = <<>>
    /\ scrape_stage = "off"
    /\ link = NoLink
    /\ final_categorized_news = NotOrganized
    /\ ParseIdle

(***************************************************************************)
(* The meme card of the interface (meme_generator_ui.py)                   *)
(***************************************************************************)

\* str.upper() of one character.
UpperChar(c) ==
    IF \E i \in 1 .. Len(LowerLetters) : CharAt(LowerLetters, i) = c
    THEN CharAt(UpperLetters,
                CHOOSE i \in 1 .. Len(LowerLetters) : CharAt(LowerLetters, i) = c)
    ELSE c

\* str.capitalize()
Capitalize(s) ==
    IF Len(s) = 0 THEN ""
    ELSE UpperChar(CharAt(s, 1)) \o StrLower(SubSeq(s, 2, Len(s)))

\* s.replace(old, new) for a non-empty old
RECURSIVE Replace(_, _, _)
Replace(s, old, new) ==
    IF ~Contains(s, old) THEN s
    ELSE LET at == {j \in 1 .. Len(s) - Len(old) + 1 :
                        SubSeq(s, j, j + Len(old) - 1) = old}
             i  == CHOOSE j \in at : \A k \in at : j <= k
         IN  SubSeq(s, 1, i - 1) \o new \o
                 Replace(SubSeq(s, i + Len(old), Len(s)), old, new)

telugu_contexts ==
    <<"tollywood", "hyderabad", "telangana", "andhra", "vijay", "prabhas",
      "mahesh", "allu arjun", "ram charan", "chiranjeevi", "balakrishna",
      "nagarjuna", "venkatesh", "ravi teja", "ntr", "pawan kalyan">>

is_tnglish(text) ==
    \E k \in DOMAIN telugu_contexts : Contains(StrLower(text), telugu_contexts[k])

\* The dictionary of generate_tnglish_dialogues, in its order.
tnglish_patterns ==
    << <<"when", "eppudu">>, <<"everyone", "andaru">>,
       <<"meanwhile", "antha sepu">>, <<"me", "nenu">>,
       <<"that moment", "aa moment">>, <<"literally", "literally">>,
       <<"waiting", "wait chestunna">>, <<"watching", "chustunna">>,
       <<"thinking", "anukuntunna">>, <<"feeling", "feel avutunna">>,
       <<"people", "vallu">>, <<"this", "idhi">>, <<"that", "adhi">>,
       <<"now", "ippudu">>, <<"always", "eppuduu">>, <<"what", "enti">>,
       <<"why", "enduku">>, <<"how", "ela">> >>

\* The replacements k .. of the dictionary, one after the other.
RECURSIVE ReplaceFrom(_, _)
ReplaceFrom(s, k) ==
    IF k > Len(tnglish_patterns) THEN s
    ELSE ReplaceFrom(Replace(s, tnglish_patterns[k][1], tnglish_patterns[k][2]),
                     k + 1)

generate_tnglish_dialogues(english_dialogues, context) ==
    IF ~is_tnglish(context) THEN english_dialogues
    ELSE [k \in DOMAIN english_dialogues |->
              Capitalize(ReplaceFrom(StrLower(english_dialogues[k]), 1))]

\* str(dialogues) of a list of strings without quotes in them.
RECURSIVE ListRepr(_)
ListRepr(list) ==
    IF Len(list) = 0 THEN ""
    ELSE IF Len(list) = 1 THEN "'" \o list[1] \o "'"
    ELSE ListRepr(SubSeq(list, 1, Len(list) - 1)) \o ", '" \o
             list[Len(list)] \o "'"

StrOfList(list) == "[" \o ListRepr(list) \o "]"

CardDialogues == 2

CardWords == 8

\* ' '.join(dialogue.split()[:8])
CardDialogue(dialogue) == JoinWords(dialogue, CardWords)

\* dialogues and processed_dialogues of generate_meme_card_html
\* (lines 327-344).
ProcessedDialogues(dialogues, description) ==
    LET context == description \o " " \o StrOfList(dialogues)
        shown   == IF is_tnglish(context)
                   THEN generate_tnglish_dialogues(dialogues, context)
                   ELSE dialogues
        first   == SubSeq(shown, 1, Min2(CardDialogues, Len(shown)))
    IN  [k \in DOMAIN first |-> CardDialogue(first[k])]

\* Dialogue lists a meme record brings to the card.
DialogueLists ==
    { <<>>,
      <<"Only one line here">>,
      <<"Me waiting while everyone keeps watching that show",
        "Meanwhile people keep thinking about this always now">>,
      <<"one two three four five six seven eight nine ten",
        "Short line", "A third line">>,
      <<"When   the  market\nfalls again", "Why now">> }

Descriptions == {"No description available", "Hyderabad metro opens new line"}

CardRows ==
    {<<dialogues, description, ProcessedDialogues(dialogues, description)>> :
         dialogues \in DialogueLists, description \in Descriptions}

ProcessedOf(dialogues, description) ==
    (CHOOSE row \in CardRows :
         row[1] = dialogues /\ row[2] = description)[3]

\* generate_meme_card_html up to the overlay (lines 323-350).
GenerateMemeCardHtml(dialogues, description) ==
    /\ caption_stage = "card"
    /\ meme_data' = [dialogues |-> dialogues, description |-> description]
    /\ processed_dialogues' = ProcessedOf(dialogues, description)
    /\ caption_stage' = "done"
    /\ UNCHANGED <<poolVars, batchVars, all_news, unique_news, scrape_stage,
                   final_categorized_news, link, dialogue_attempt, raw_responses,
                   captions, returned, sent_prompts, returned_hashtags>>

(***************************************************************************)
(* generate_hashtags on the text of the answer                             *)
(***************************************************************************)

\* A character the regular expression \w matches.
IsWordChar(c) == c = "_" \/ (IsAlnumOrSpace(c) /\ ~IsSpace(c))

\* re.findall(r'#\w+', s) from position i on.
RECURSIVE HashWordsFrom(_, _)
HashWordsFrom(s, i) ==
    LET starts == {p \in i .. Len(s) - 1 :
                       CharAt(s, p) = "#" /\ IsWordChar(CharAt(s, p + 1))}
        p      == CHOOSE k \in starts : \A j \in starts : k <= j
        stops  == {q \in p + 1 .. Len(s) :
                       q = Len(s) \/ ~IsWordChar(CharAt(s, q + 1))}
        q      == CHOOSE k \in stops : \A j \in stops : k <= j
    IN  IF starts = {} THEN <<>>
        ELSE <<SubSeq(s, p, q)>> \o HashWordsFrom(s, q + 1)

\* json.loads of a whole answer: a list of strings, some other JSON value
\* (an object without members, a number, a string), or a JSONDecodeError.
JsonValue(text) ==
    LET t == Strip(text)
    IN  IF Len(t) >= 2 /\ StartsWith(t, "[") /\ EndsWith(t, "]")
        THEN (IF json_loads(t).ok
              THEN [kind |-> "list", items |-> json_loads(t).items]
              ELSE [kind |-> "error", items |-> <<>>])
        ELSE IF t = "{}" \/
                (t # "" /\ \A i \in 1 .. Len(t) :
                               \E d \in 1 .. Len(Digits) :
                                   CharAt(t, i) = CharAt(Digits, d))
        THEN [kind |-> "other", items |-> <<>>]
        ELSE [kind |-> "error", items |-> <<>>]

MaxHashtags == 8

\* The list of the last line of the try block.
CannedHashtags(category) ==
    <<"#" \o Capitalize(category), "#News", "#Trending", "#Viral",
      "#Breaking", "#Update">>

\* The list of the except clause.
ErrorHashtags(category) ==
    <<"#" \o Capitalize(category), "#News", "#Trending", "#Update">>

\* hashtags[:8]
FirstHashtags(hashtags) ==
    SubSeq(hashtags, 1, Min2(MaxHashtags, Len(hashtags)))

\* generate_hashtags (lines 564-602) on an answer of safe_gemini_call.
generate_hashtags(reply, category) ==
    IF reply.kind # "text" THEN ErrorHashtags(category)
    ELSE LET value == JsonValue(reply.value)
             found == HashWordsFrom(reply.value, 1)
         IN  IF value.kind = "list" /\ Len(value.items) > 0
             THEN FirstHashtags(value.items)
             ELSE IF value.kind = "error" /\ found # <<>>
             THEN FirstHashtags(found)
             ELSE CannedHashtags(category)

\* Answers to the hashtag prompt.
HashtagAnswers ==
    {"[\"#BreakingNews\", \"#Trending\", \"#Viral\", \"#Politics\", \"#NewsUpdate\", \"#India\"]",
     "[\"#A1\", \"#B2\", \"#C3\", \"#D4\", \"#E5\", \"#F6\", \"#G7\", \"#H8\", \"#I9\"]",
     "[\"#One\"]",
     "[\"News\", \"Trending\", \"Viral\", \"Budget\", \"India\", \"Update\"]",
     "[]",
     "{}",
     "Here are some tags: #Budget #India2024 and #Tax_cut!",
     "Sorry, I cannot help with that",
     "~~~json\n[\"#T1\", \"#T2\", \"#T3\", \"#T4\", \"#T5\", \"#T6\", \"#T7\"]\n~~~"}

HashtagCategories == {"politics", "sports"}

HashtagRows ==
    {<<reply, category, generate_hashtags(reply, category)>> :
         reply \in LlmReplies(HashtagAnswers), category \in HashtagCategories}

HashtagsFrom(reply, category) ==
    (CHOOSE row \in HashtagRows : row[1] = reply /\ row[2] = category)[3]

\* generate_hashtags, from the answer of its call on.
GenerateHashtags(reply, category) ==
    /\ caption_stage = "hashtags"
    /\ raw_responses' = Append(raw_responses, reply)
    /\ returned_hashtags' = HashtagsFrom(reply, category)
    /\ caption_stage' = "tagged"
    /\ UNCHANGED <<poolVars, batchVars, all_news, unique_news, scrape_stage,
                   final_categorized_news, link, dialogue_attempt, captions,
                   returned, sent_prompts, meme_data, processed_dialogues>>

(***************************************************************************)
(* Specifications                                                          *)
(***************************************************************************)

\* No processor is driven: the batch variables rest.
PipeIdle ==
    /\ processor = "none"
    /\ constructed = "ok"
    /\ emotions_rows = <<>>
    /\ emotions_db = <<>>
    /\ n_items = 0
    /\ item = 0
    /\ stage = "off"
    /\ cur = NewItem
    /\ cap_attempt = 0
    /\ processed_memes = <<>>
    /\ processed_categories = [c \in major_categories |-> <<>>]
    /\ item_log = <<>>
    /\ TextIdle

PoolInit(cs) ==
    /\ PipeIdle
    /\ now = 0
    /\ callers = cs
    /\ num_models \in 1 .. MaxKeys
    /\ current_key_index = 0
    /\ calls_per_key = [i \in 0 .. (num_models - 1) |-> <<>>]
    /\ calls_made = [i \in 0 .. (num_models - 1) |-> 0]
    /\ issued = [i \in 0 .. (num_models - 1) |-> <<>>]
    /\ pc = [c \in Callers |-> "idle"]
    /\ retries = [c \in Callers |-> 1]
    /\ attempt = [c \in Callers |-> 0]
    /\ model_index = [c \in Callers |-> NoIndex]
    /\ wake = [c \in Callers |-> 0]
    /\ outcomes = [c \in Callers |-> <<>>]
    /\ result = [c \in Callers |-> NoResult]
    /\ gnam_error = FALSE

Init == PoolInit({1})

Next ==
    \/ \E c \in callers, r \in 1 .. MaxRetries : CallStart(c, r)
    \/ \E c \in callers : GetNextAvailableModel(c)
    \/ \E c \in callers : WakeFromWait(c)
    \/ \E c \in callers : RecordCall(c)
    \/ \E c \in callers : GenerateSucceeds(c)
    \/ \E c \in callers : GenerateFails(c)
    \/ \E d \in ElapseChoices : Elapse(d)

Spec == Init /\ [][Next]_vars

SpecConc == PoolInit({1, 2}) /\ [][Next]_vars

\* Before a processor is constructed: no model, no catalog, no batch.
BatchInit ==
    /\ now = 0
    /\ callers = {}
    /\ num_models = 0
    /\ current_key_index = 0
    /\ calls_per_key = <<>>
    /\ calls_made = <<>>
    /\ issued = <<>>
    /\ pc = [c \in Callers |-> "idle"]
    /\ retries = [c \in Callers |-> 1]
    /\ attempt = [c \in Callers |-> 0]
    /\ model_index = [c \in Callers |-> NoIndex]
    /\ wake = [c \in Callers |-> 0]
    /\ outcomes = [c \in Callers |-> <<>>]
    /\ result = [c \in Callers |-> NoResult]
    /\ gnam_error = FALSE
    /\ processor \in {"gemini", "ollama"}
    /\ constructed = "no"
    /\ emotions_rows = <<>>
    /\ emotions_db = <<>>
    /\ n_items = 0
    /\ item = 0
    /\ stage = "idle"
    /\ cur = NewItem
    /\ cap_attempt = 0
    /\ processed_memes = <<>>
    /\ processed_categories = [c \in major_categories |-> <<>>]
    /\ item_log = <<>>
    /\ TextIdle

\* The batches handed in: empty, one item, more items than the cap.
BatchSizes == {0, 1, ItemCap + 1}

BatchNext ==
    \/ \E keys \in 0 .. MaxKeys, ok \in 0 .. MaxKeys, env \in BOOLEAN,
          response \in {Raised} \cup {Answer(a) : a \in CatalogAnswers} :
          ok <= keys /\ Construct(keys, ok, env, response)
    \/ ConstructOllama
    \/ \E n \in BatchSizes : StartBatch(n)
    \/ \E h \in Hints, t \in BOOLEAN, c \in BOOLEAN : ItemStart(h, t, c)
    \/ \E r \in LlmReplies(CategoryTexts) :
          \E n \in AllRetriesUsed :
          StepCategory(r, n)
    \/ \E r \in LlmReplies(SummaryLines) :
          \E n \in AllRetriesUsed :
          StepSummary(r, n)
    \/ \E r \in LlmReplies(EmotionTexts) :
          \E n \in AllRetriesUsed :
          StepEmotion(r, n)
    \/ \E table \in SUBSET MemesRows, raises \in BOOLEAN :
          StepTemplate(table, raises)
    \/ \E ok \in BOOLEAN : StepDownload(ok)
    \/ \E o \in {"call_failed", "unparsable", "ok"} :
          \E n \in AllRetriesUsed : StepCaptions(o, n)
    \/ \E r \in LlmReplies(HashtagTexts) :
          \E n \in AllRetriesUsed :
          StepHashtags(r, n)
    \/ Finish
    \/ \E h \in Hints, t \in BOOLEAN, c \in BOOLEAN : OllamaItemStart(h, t, c)
    \/ \E r \in LlmReplies(CategoryTexts) \cup {HttpError} : OllamaCategory(r)
    \/ \E r \in LlmReplies(SummaryLines) \cup {HttpError},
          valid \in 0 .. 3, len \in 1 .. 2 : OllamaBuzzy(r, valid, len)
    \/ OllamaFinish

SpecBatch == BatchInit /\ [][BatchNext]_vars

\* process_news_with_emotion_templates of a processor that was constructed,
\* with every number of API calls a call of safe_gemini_call may take.
CallsInit == BatchInit /\ processor = "gemini"

CallsNext ==
    \/ Construct(1, 1, TRUE, Answer(Catalog(<<"joy", "sad">>)))
    \/ \E n \in BatchSizes : StartBatch(n)
    \/ \E h \in Hints, t \in BOOLEAN, c \in BOOLEAN : ItemStart(h, t, c)
    \/ \E r \in LlmReplies(CategoryTexts) :
          \E n \in ApiCalls(r.kind = "text") : StepCategory(r, n)
    \/ \E r \in LlmReplies(SummaryLines) :
          \E n \in ApiCalls(r.kind = "text") : StepSummary(r, n)
    \/ \E r \in LlmReplies(EmotionTexts) :
          \E n \in ApiCalls(r.kind = "text") : StepEmotion(r, n)
    \/ \E table \in SUBSET MemesRows, raises \in BOOLEAN :
          StepTemplate(table, raises)
    \/ \E ok \in BOOLEAN : StepDownload(ok)
    \/ \E o \in {"call_failed", "unparsable", "ok"} :
          \E n \in ApiCalls(o # "call_failed") : StepCaptions(o, n)
    \/ \E r \in LlmReplies(HashtagTexts) :
          \E n \in ApiCalls(r.kind = "text") : StepHashtags(r, n)
    \/ Finish

\* Every external call returns or raises, and the one thread of the
\* program goes on to its next step.
SpecCalls == CallsInit /\ [][CallsNext]_vars /\ WF_vars(CallsNext)

\* The scraper alone: no key pool, no processor, an empty news_list.
\* get_all_news with the sources scraped so far having given news_list.
ScrapeFrom(news_lists) ==
    /\ now = 0
    /\ callers = {}
    /\ num_models = 0
    /\ current_key_index = 0
    /\ calls_per_key = <<>>
    /\ calls_made = <<>>
    /\ issued = <<>>
    /\ pc = [c \in Callers |-> "idle"]
    /\ retries = [c \in Callers |-> 1]
    /\ attempt = [c \in Callers |-> 0]
    /\ model_index = [c \in Callers |-> NoIndex]
    /\ wake = [c \in Callers |-> 0]
    /\ outcomes = [c \in Callers |-> <<>>]
    /\ result = [c \in Callers |-> NoResult]
    /\ gnam_error = FALSE
    /\ processor = "none"
    /\ constructed = "ok"
    /\ emotions_rows = <<>>
    /\ emotions_db = <<>>
    /\ n_items = 0
    /\ item = 0
    /\ stage = "off"
    /\ cur = NewItem
    /\ cap_attempt = 0
    /\ processed_memes = <<>>
    /\ processed_categories = [c \in major_categories |-> <<>>]
    /\ item_log = <<>>
    /\ all_news \in news_lists
    /\ unique_news = <<>>
    /\ scrape_stage = "scraping"
    /\ link = NoLink
    /\ final_categorized_news = NotOrganized
    /\ ParseIdle

ScrapeInit == ScrapeFrom({<<>>})

ScrapeNext ==
    \/ \E title \in Titles, listing \in Listings,
          source_category \in SourceCategories, href_ok \in BOOLEAN :
          ScrapeLink(title, listing, source_category, href_ok)
    \/ Deduplicate
    \/ Organize

SpecScrape == ScrapeInit /\ [][ScrapeNext]_vars

\* get_all_news from the removal of duplicates on, for the news of whole
\* runs: categories empty, short, of 10 and of more than 10 articles.
SourceRuns ==
    {ScrapedNews(politics, sports, entertainment, again) :
         politics \in {0, FewPolitics}, sports \in 0 .. MaxPerCategory,
         entertainment \in 0 .. MaxPerCategory, again \in BOOLEAN}

OrganizeInit == ScrapeFrom(SourceRuns)

OrganizeNext ==
    \/ Deduplicate
    \/ Organize

SpecOrganize == OrganizeInit /\ [][OrganizeNext]_vars

\* A caption function alone, about to ask for captions.
CaptionInit ==
    /\ now = 0
    /\ callers = {}
    /\ num_models = 0
    /\ current_key_index = 0
    /\ calls_per_key = <<>>
    /\ calls_made = <<>>
    /\ issued = <<>>
    /\ pc = [c \in Callers |-> "idle"]
    /\ retries = [c \in Callers |-> 1]
    /\ attempt = [c \in Callers |-> 0]
    /\ model_index = [c \in Callers |-> NoIndex]
    /\ wake = [c \in Callers |-> 0]
    /\ outcomes = [c \in Callers |-> <<>>]
    /\ result = [c \in Callers |-> NoResult]
    /\ gnam_error = FALSE
    /\ processor = "none"
    /\ constructed = "ok"
    /\ emotions_rows = <<>>
    /\ emotions_db = <<>>
    /\ n_items = 0
    /\ item = 0
    /\ stage = "off"
    /\ cur = NewItem
    /\ cap_attempt = 0
    /\ processed_memes = <<>>
    /\ processed_categories = [c \in major_categories |-> <<>>]
    /\ item_log = <<>>
    /\ all_news = <<>>
    /\ unique_news = <<>>
    /\ scrape_stage = "off"
    /\ link = NoLink
    /\ final_categorized_news = NotOrganized
    /\ caption_stage \in {"dialogue", "ollama", "card", "hashtags"}
    /\ dialogue_attempt = 0
    /\ raw_responses = <<>>
    /\ captions = <<>>
    /\ returned = Pending
    /\ sent_prompts = <<>>
    /\ meme_data = NoMeme
    /\ processed_dialogues = <<>>
    /\ returned_hashtags = <<>>

CaptionNext ==
    \/ \E r \in LlmReplies(GeminiTexts) : DialogueAttempt(r)
    \/ \E r \in LlmReplies(OllamaTexts) \cup {HttpError} : OllamaCaptions(r)
    \/ \E d \in DialogueLists, t \in Descriptions : GenerateMemeCardHtml(d, t)
    \/ \E r \in LlmReplies(HashtagAnswers), c \in HashtagCategories :
          GenerateHashtags(r, c)

SpecCaptions == CaptionInit /\ [][CaptionNext]_vars

(***************************************************************************)
(* Properties of the key pool.                                             *)
(***************************************************************************)

\* The timestamps of w younger than the window at time t.
Recent(w, t) == {i \in DOMAIN w : t - w[i] < Window}

\* A caller leaves get_next_available_model after its saturation sleep.
ReturnsAfterWait(c) == pc[c] = "wait" /\ pc'[c] = "record"

\* A caller leaves get_next_available_model, by either path.
ReturnsModel(c) == pc[c] \in {"get_model", "wait"} /\ pc'[c] = "record"

\* C1: on every credential, the API calls issued within any 60 seconds
\* never number more than max_calls_per_key_per_minute.
C1_IssuedWithinLimit ==
    \A k \in Keys :
        Cardinality(Recent(issued[k], now)) <= max_calls_per_key_per_minute

\* C2 (as claimed): when no credential had capacity, after the sleep the
\* windows of all credentials are empty.
C2_AllWindowsCleared ==
    [][\A c \in callers :
          ReturnsAfterWait(c) => \A k \in Keys : calls_per_key'[k] = <<>>]_vars

\* C2 (amended): when no credential had capacity, after the sleep only the
\* window of credential 0 is cleared; every other window is left as the scan
\* pruned it, credential 0 is returned and no second scan moves the cursor.
C2_OnlyFirstWindowCleared ==
    [][\A c \in callers :
          ReturnsAfterWait(c) =>
              /\ calls_per_key'[0] = <<>>
              /\ \A k \in Keys \ {0} : calls_per_key'[k] = calls_per_key[k]
              /\ model_index'[c] = 0
              /\ current_key_index' = current_key_index]_vars

\* The saturation sleep just ended while another credential's window is
\* still full.
C2_Witness ==
    /\ num_models >= 2
    /\ pc[1] = "record"
    /\ wake[1] > 0 /\ now = wake[1]
    /\ calls_per_key[0] = <<>>
    /\ Len(calls_per_key[1]) = max_calls_per_key_per_minute

\* C3: get_next_available_model never raises; it hands its caller the index
\* of an initialised model, possibly after sleeping.
C3_GetNextNeverRaises ==
    /\ ~gnam_error
    /\ \A c \in callers :
          /\ pc[c] # "except"
          /\ pc[c] \in {"record", "generate"} => model_index[c] \in Keys

\* A caller sleeps because every credential is saturated.
C3_Witness ==
    /\ pc[1] = "wait"
    /\ wake[1] > now
    /\ \A k \in Keys : Len(calls_per_key[k]) = max_calls_per_key_per_minute

AllFailed(o) == \A i \in DOMAIN o : o[i] = "fail"

\* C4: safe_gemini_call issues at most `retries` API calls, returns the text
\* of the first call that succeeds, and raises exactly when all `retries`
\* attempts have failed.
C4_BoundedRetries ==
    \A c \in callers :
        LET o == outcomes[c]
            n == Len(o)
        IN  /\ n + (IF pc[c] = "generate" THEN 1 ELSE 0) <= retries[c]
            /\ result[c].kind = "return" =>
                   /\ n >= 1 /\ o[n] = "ok"
                   /\ AllFailed(SubSeq(o, 1, n - 1))
                   /\ result[c].text = n
            /\ result[c].kind = "raise" <=> (n = retries[c] /\ AllFailed(o))
            /\ (pc[c] = "idle" /\ n >= 1) => result[c].kind \in {"return", "raise"}

\* A call returned the text of its second attempt after the first failed.
C4_Witness ==
    /\ pc[1] = "idle"
    /\ outcomes[1] = <<"fail", "ok">>
    /\ result[1] = [kind |-> "return", text |-> 2]

\* C5: a retry inside safe_gemini_call goes to a credential other than the
\* one whose attempt just failed, in every pool of at least 2 credentials.
C5_RetryOnOtherCredential ==
    [][\A c \in callers :
          (ReturnsModel(c) /\ attempt[c] > 0 /\ num_models >= 2) =>
              model_index'[c] # model_index[c]]_vars

\* C6: with two concurrent callers no credential's window ever holds more
\* than max_calls_per_key_per_minute timestamps younger than 60 seconds.
C6_WindowWithinLimit ==
    \A k \in Keys :
        Cardinality(Recent(calls_per_key[k], now)) <= max_calls_per_key_per_minute

(***************************************************************************)
(* Properties of the batch loops.                                          *)
(***************************************************************************)

\* The loop stands between two items, the last one handled as `how`.
ItemEnded(how) ==
    /\ stage = "loop"
    /\ item_log # <<>>
    /\ Last(item_log) = how

\* C7: in both batch loops an item that fails (an LLM step failing, an
\* answer that cannot be parsed, no template, a failed download) never ends
\* the batch: the loop goes on to the next item, and the function returns
\* only after every item (up to the cap) has been handled.  The loop breaks
\* off only on an item that carries no title.
C7_FailureNeverAborts ==
    /\ stage = "aborted" => ~cur.has_title
    /\ stage \in {"loop", "returned"} => Len(item_log) = item
    /\ stage = "returned" => item = MaxItems

\* The batch returned after its first item failed and its second was
\* emitted.
C7_Witness ==
    /\ processor = "gemini"
    /\ stage = "returned"
    /\ item_log = <<"failed", "emitted">>
    /\ processed_memes = <<2>>

\* C8 (as claimed): an item of which any LLM step failed is not emitted, and
\* no field of an emitted item comes from a default or canned value.
C8_FailedStepDropsItem ==
    (processor = "gemini" /\ ItemEnded("emitted")) =>
        /\ cur.failed = {}
        /\ cur.category_from # "fallback"
        /\ cur.summary # "title"
        /\ cur.hashtags \notin {"canned4", "canned6"}
        /\ cur.confidence = "high"

\* C8 (amended): only a failure of the caption step is sure to drop the
\* item.  An emitted item has captions of the model and a template with an
\* image; a failed category step leaves the fallback category, a failed
\* summary step the title, a failed hashtag step the canned list of four, a
\* failed emotion step the label neutral with the empty id; and an item is
\* dropped as failed only for its captions or a missing content field.
C8_OnlyCaptionFailureDrops ==
    /\ (processor = "gemini" /\ ItemEnded("emitted")) =>
          /\ "captions" \notin cur.failed
          /\ cur.captions = "llm"
          /\ cur.template.image_path # ""
          /\ "category" \in cur.failed =>
                 cur.category = FallbackCategory(cur.hint)
          /\ "summary" \in cur.failed => cur.summary = "title"
          /\ "hashtags" \in cur.failed => cur.hashtags = "canned4"
          /\ "emotion" \in cur.failed =>
                 /\ cur.label = "neutral"
                 /\ cur.emotion_id = EmptyId
                 /\ cur.template.emotion_id = EmptyId
    /\ (processor = "gemini" /\ ItemEnded("failed")) =>
          ("captions" \in cur.failed \/ ~cur.has_content)

\* An item is emitted although its category, summary and hashtag steps all
\* failed.
C8_Witness ==
    /\ processor = "gemini"
    /\ ItemEnded("emitted")
    /\ cur.failed = {"category", "summary", "hashtags"}
    /\ cur.summary = "title"
    /\ cur.hashtags = "canned4"

\* C9: a constructed GeminiEmotionProcessor has at least one model and a
\* catalog that is not empty.
C9_NeverStartsWithoutCatalog ==
    (processor = "gemini" /\ constructed = "ok") =>
        /\ num_models >= 1
        /\ emotions_db # <<>>

\* The catalog rows whose label is the detected one, case put aside.
MatchingRows ==
    {k \in DOMAIN emotions_rows :
        Lower(emotions_rows[k].emotion_label) = Lower(cur.detected)}

\* A template was selected for an item whose emotion step answered.
TemplateSelected ==
    /\ stage = "download"
    /\ "emotion" \notin cur.failed

\* C10 (as claimed): when the detected label is, case put aside, the label
\* of a catalog entry for whose emotion_id a template exists, the selected
\* template belongs to that entry's emotion_id.
C10_TemplateOfMatchedEntry ==
    TemplateSelected =>
        \A k \in MatchingRows :
            (\E t \in cur.table :
                 t.emotion_id = emotions_rows[k].emotion_id) =>
                cur.template.emotion_id = emotions_rows[k].emotion_id

\* C10 (amended): when the detected label is, case put aside, the label of
\* catalog entries, the selected template is one of the table and belongs
\* to the emotion_id of the entry loaded last among them.
C10_TemplateOfLastMatchedEntry ==
    (TemplateSelected /\ MatchingRows # {}) =>
        LET last == CHOOSE k \in MatchingRows :
                        \A j \in MatchingRows : j <= k
        IN  /\ cur.template \in cur.table
            /\ cur.template.emotion_id = emotions_rows[last].emotion_id

\* Two catalog rows differ only in the case of their label, templates exist
\* for both, and the template of the later row is selected.
C10_Witness ==
    /\ TemplateSelected
    /\ emotions_rows = Catalog(<<"Joy", "joy">>)
    /\ cur.detected = "JOY"
    /\ \E t \in cur.table : t.emotion_id = 1
    /\ cur.template.emotion_id = 2

\* The template table has been queried for the item at hand: a template
\* was selected, or the item was skipped for want of one.
TemplateQueried ==
    /\ processor = "gemini"
    /\ \/ stage = "download"
       \/ ItemEnded("skipped") /\ cur.template = NoTemplate

\* The emotion step answered with a label that no catalog row carries.
UnknownLabel ==
    /\ "emotion" \notin cur.failed
    /\ cur.detected # "none"
    /\ MatchingRows = {}

\* C11 (as claimed): for a detected label that matches no catalog label, a
\* template is selected whenever the template table holds any template.
C11_SomeTemplateWhenStoreNonEmpty ==
    (TemplateQueried /\ UnknownLabel /\ cur.table # {}) =>
        cur.template # NoTemplate

\* C11 (amended): for a detected label that matches no catalog label the
\* table is asked for the emotion_id of the first catalog key (the empty
\* id when the catalog is empty); a selected template is a row of the table
\* with that id, and exactly when the table has no row with that id no
\* template is selected and the item is skipped, whatever other templates
\* the table holds.
C11_TemplateOfFirstKeyOrNone ==
    (TemplateQueried /\ UnknownLabel) =>
        LET id == IF emotions_db = <<>> THEN EmptyId
                  ELSE emotions_db[1].emotion_id
        IN  /\ cur.emotion_id = id
            /\ cur.template # NoTemplate =>
                   (cur.template \in cur.table /\ cur.template.emotion_id = id)
            /\ (\A t \in cur.table : t.emotion_id # id) <=>
                   (cur.template = NoTemplate /\ ItemEnded("skipped"))

\* An item with an unknown label is skipped although the table holds a
\* template of another emotion.
C11_Witness ==
    /\ TemplateQueried /\ UnknownLabel
    /\ cur.detected = "angry"
    /\ emotions_rows = Catalog(<<"Joy">>)
    /\ \E t \in cur.table : t.emotion_id = 2
    /\ ItemEnded("skipped")

\* The emotion step of the item at hand is over and answered.
EmotionAnalysed ==
    /\ processor = "gemini"
    /\ stage = "template"
    /\ "emotion" \notin cur.failed

\* C12 (as claimed): a detected label that is not in the catalog resolves
\* to the catalog label most similar to it when that similarity exceeds 0.5,
\* whatever the order of the catalog.  Of the texts of this model only
\* "joyful" and "joy" are that similar (ratio 2*3/9).
C12_ResolvesToMostSimilarLabel ==
    LET Similar(d, l) == d = "joyful" /\ Lower(l) = "joy"
    IN  (EmotionAnalysed /\ MatchingRows = {}) =>
            \A k \in DOMAIN emotions_rows :
                Similar(cur.detected, emotions_rows[k].emotion_label) =>
                    cur.label = Lower(emotions_rows[k].emotion_label)

\* C12 (amended): a detected label that is not in the catalog resolves to
\* the first key of the catalog, the lower-cased label of the row loaded
\* first, with the emotion_id stored under that key and the confidence
\* 'fallback'; similarity plays no part.
C12_ResolvesToFirstLoadedLabel ==
    (EmotionAnalysed /\ MatchingRows = {} /\ emotions_rows # <<>>) =>
        /\ cur.label = Lower(emotions_rows[1].emotion_label)
        /\ cur.emotion_id = emotions_db[1].emotion_id
        /\ cur.confidence = "fallback"

\* "joyful" resolves to "sad", the first row, although "Joy" is loaded too.
C12_Witness ==
    /\ EmotionAnalysed
    /\ emotions_rows = Catalog(<<"sad", "Joy">>)
    /\ cur.detected = "joyful"
    /\ cur.label = "sad"

(***************************************************************************)
(* Properties of the scraper.                                              *)
(***************************************************************************)

\* remove_duplicates has run over news_list.
Deduped == scrape_stage = "deduped"

Kept(news) == \E k \in DOMAIN unique_news : unique_news[k] = news

\* The words of a text: its maximal runs of characters other than blanks.
WordsOf(s) ==
    {SubSeq(s, i, j) :
         <<i, j>> \in {p \in (1 .. Len(s)) \X (1 .. Len(s)) :
                          /\ p[1] <= p[2]
                          /\ \A k \in p[1] .. p[2] : CharAt(s, k) # " "
                          /\ p[1] = 1 \/ CharAt(s, p[1] - 1) = " "
                          /\ p[2] = Len(s) \/ CharAt(s, p[2] + 1) = " "}}

\* The lower-cased word set of every title of this model.
TitleWords == {<<t, WordsOf(StrLower(t))>> : t \in Titles}

WordSet(title) == (CHOOSE row \in TitleWords : row[1] = title)[2]

\* The Jaccard similarity of the word sets of two titles exceeds 0.7.
SimilarTitles(t1, t2) ==
    10 * Cardinality(WordSet(t1) \cap WordSet(t2)) >
        7 * Cardinality(WordSet(t1) \cup WordSet(t2))

\* C13 (as claimed): of two items whose titles' lower-cased word sets have a
\* Jaccard similarity above 0.7 remove_duplicates keeps only the first, and
\* it keeps both when the similarity is at most 0.7.
C13_SimilarTitlesDeduplicated ==
    Deduped =>
        \A i, j \in DOMAIN all_news :
            (i < j /\ all_news[i] # all_news[j]) =>
                IF SimilarTitles(all_news[i].title, all_news[j].title)
                THEN Kept(all_news[i]) /\ ~Kept(all_news[j])
                ELSE Kept(all_news[i]) /\ Kept(all_news[j])

\* C13 (amended): of two items of equal content remove_duplicates keeps
\* only the first, and it keeps an item whenever no earlier item has its
\* content; the titles play no part.
C13_EqualContentDeduplicated ==
    Deduped =>
        /\ \A j \in DOMAIN all_news :
               (\A i \in 1 .. (j - 1) :
                    all_news[i].content # all_news[j].content) =>
                   Kept(all_news[j])
        /\ \A k \in DOMAIN unique_news :
               \E i \in DOMAIN all_news :
                   /\ unique_news[k] = all_news[i]
                   /\ \A h \in 1 .. (i - 1) :
                          all_news[h].content # all_news[i].content
        /\ \A k, m \in DOMAIN unique_news :
               k # m => unique_news[k].content # unique_news[m].content

\* Of two items of unlike titles and one content the second is dropped.
C13_Witness ==
    /\ Deduped
    /\ Len(all_news) = 2
    /\ ~SimilarTitles(all_news[1].title, all_news[2].title)
    /\ all_news[1].content = all_news[2].content
    /\ unique_news = <<all_news[1]>>

\* C14: remove_duplicates is idempotent: run over its own output it returns
\* that output.
C14_DedupIdempotent ==
    Deduped => remove_duplicates(unique_news) = unique_news

\* remove_duplicates dropped an item, and a second run drops nothing more.
C14_Witness ==
    /\ Deduped
    /\ Len(all_news) = MaxNews
    /\ Len(unique_news) < Len(all_news)
    /\ remove_duplicates(unique_news) = unique_news

\* The positions of news_list whose item has no earlier item of its content.
FirstOccurrences ==
    {j \in DOMAIN all_news :
         \A i \in 1 .. (j - 1) : all_news[i].content # all_news[j].content}

\* C15: the output of remove_duplicates is the subsequence of its input made
\* of exactly the items that have no earlier duplicate (an earlier item of
\* the same content), in input order, and every input item has an item of
\* its content in the output.
C15_FirstOccurrencesInOrder ==
    Deduped =>
        /\ Len(unique_news) = Cardinality(FirstOccurrences)
        /\ \E pos \in [DOMAIN unique_news -> FirstOccurrences] :
               /\ \A k, m \in DOMAIN unique_news : k < m => pos[k] < pos[m]
               /\ \A k \in DOMAIN unique_news : unique_news[k] = all_news[pos[k]]
        /\ \A i \in DOMAIN all_news :
               \E k \in DOMAIN unique_news :
                   unique_news[k].content = all_news[i].content

\* Of two different items of one content the earlier one is the output.
C15_Witness ==
    /\ Deduped
    /\ Len(all_news) = 2
    /\ all_news[1] # all_news[2]
    /\ all_news[1].content = all_news[2].content
    /\ Len(unique_news) = 1
    /\ unique_news[1] = all_news[1]
    /\ unique_news[1] # all_news[2]

\* calculate_buzz_score has run for the link looked at last.
Scored == link.verdict = "appended"

\* C16: the score calculate_buzz_score gives is an integer from the base 1
\* to the ceiling 15, and one (title, content) always has one score.
C16_BuzzScoreInRange ==
    /\ Scored => link.buzz_score \in BaseScore .. ScoreCap
    /\ \A i \in DOMAIN all_news :
           /\ all_news[i].buzz_score \in BaseScore .. ScoreCap
           /\ (Scored /\ all_news[i].title = link.title
                      /\ all_news[i].content = link.content) =>
                  all_news[i].buzz_score = link.buzz_score

\* A title whose keywords alone add up to more than the ceiling is scored at
\* the ceiling, next to an article scored below it.
C16_Witness ==
    /\ Scored
    /\ link.title = "Breaking scandal viral murder wins Election award show"
    /\ link.buzz_score = ScoreCap
    /\ \E i \in DOMAIN all_news :
           all_news[i].buzz_score \in (BaseScore + 1) .. (ScoreCap - 1)

\* categorize_news_content has run for the link looked at last.
Categorized == link.verdict \in {"off_target", "appended"}

\* The hint of the link looked at last is no target category.
NoUsableHint == link.source_category \notin TargetSet

\* C17 (as claimed): without a usable hint the category is the first one,
\* in the declared order, that has a keyword in the text, however many
\* keywords of later categories occur.
C17_FirstMatchingCategory ==
    (Categorized /\ NoUsableHint) =>
        LET scores == category_scores(link.title, link.content)
        IN  \A i \in DOMAIN scores :
                (scores[i] > 0 /\ \A j \in 1 .. (i - 1) : scores[j] = 0) =>
                    link.category = category_keywords[i].category

\* C17 (amended): without a usable hint the category is the one with the
\* most keywords in the text, the earlier in the declared order among
\* those with equally many; a text with a politics keyword is politics
\* only when no other category has more keywords in it.
C17_MostMatchingCategory ==
    (Categorized /\ NoUsableHint) =>
        LET scores == category_scores(link.title, link.content)
        IN  \A i \in DOMAIN scores :
                (/\ scores[i] > 0
                 /\ \A j \in 1 .. (i - 1) : scores[j] < scores[i]
                 /\ \A j \in DOMAIN scores : scores[j] <= scores[i]) =>
                    link.category = category_keywords[i].category

\* A text with one politics keyword and two entertainment keywords is
\* categorised as entertainment.
C17_Witness ==
    /\ Categorized /\ NoUsableHint
    /\ category_scores(link.title, link.content)[1] = 1
    /\ category_scores(link.title, link.content)[3] = 2
    /\ link.category = "entertainment"

\* C18: a hint that is a target category is returned as it is, whatever
\* keywords the text holds; without such a hint and without a keyword in
\* the text the result is 'entertainment'; the result is a target category
\* in every case, so that no link is passed over for its category.
C18_HintWinsAndDefault ==
    Categorized =>
        /\ ~NoUsableHint => link.category = link.source_category
        /\ (NoUsableHint /\
            \A i \in DOMAIN category_keywords :
                category_scores(link.title, link.content)[i] = 0) =>
               link.category = "entertainment"
        /\ link.category \in TargetSet
        /\ link.verdict = "appended"

\* A text full of entertainment keywords keeps the hint 'politics', next to
\* an article without hint and keyword filed under 'entertainment'.
C18_Witness ==
    /\ Categorized
    /\ link.source_category = "politics"
    /\ category_scores(link.title, link.content)[3] > category_scores(link.title, link.content)[1]
    /\ link.category = "politics"
    /\ \E i \in DOMAIN all_news :
           /\ all_news[i].source_category \notin TargetSet
           /\ \A k \in DOMAIN category_keywords :
                  category_scores(all_news[i].title, all_news[i].content)[k] = 0
           /\ all_news[i].category = "entertainment"

(***************************************************************************)
(* Properties of the caption parsers.                                      *)
(***************************************************************************)

\* The reply parsed last was an answer, not an exception.
AnsweredLast ==
    /\ raw_responses # <<>>
    /\ raw_responses[Len(raw_responses)].kind = "text"

LastText == raw_responses[Len(raw_responses)].value

\* extract_dialogue_captions has run on an answer.
Extracted == caption_stage \in {"dialogue", "done"} /\ AnsweredLast /\
             LastText \in GeminiTexts

\* The candidates each method finds by itself in every answer of the model.
MethodRows ==
    {[text |-> t,
      valid_array |-> FirstArray(t).ok,
      json |-> JsonDialogues(t),
      quoted |-> QuotedDialogues(t),
      pattern |-> PatternDialogues(t)] : t \in GeminiTexts}

MethodsOf(text) == CHOOSE row \in MethodRows : row.text = text

\* C19: the result of extract_dialogue_captions is the candidates of the
\* first method that by itself finds two or more (the first two of them for
\* the line patterns), and empty when no method does; candidates of a
\* method that failed are neither counted nor returned.
C19_EachTierOnItsOwn ==
    Extracted =>
        LET m == MethodsOf(LastText)
        IN  captions =
                IF Len(m.json) >= 2 THEN m.json
                ELSE IF Len(m.quoted) >= 2 THEN m.quoted
                ELSE IF Len(m.pattern) >= 2 THEN SubSeq(m.pattern, 1, 2)
                ELSE <<>>

\* parse_llm_captions has run on an answer.
Parsed == caption_stage = "done" /\ AnsweredLast /\ LastText \in OllamaTexts

\* What parse_llm_captions has to work on in every answer of the model:
\* whether json.loads took its array, and its valid lines.
OllamaMethodRows ==
    {[text |-> t,
      valid_array |->
          LET c == CleanedResponse(t)
              a == IndexOf(c, "[", 1)
              b == LastIndexOf(c, "]")
          IN  a # 0 /\ a < b /\ json_loads(SubSeq(c, a, b)).ok,
      lines |-> TextCaptions(t)] : t \in OllamaTexts}

OllamaMethodsOf(text) == CHOOSE row \in OllamaMethodRows : row.text = text

CaptionsReturned ==
    caption_stage = "done" /\ Extracted /\ returned.kind = "returned"

\* generate_meme_card_html has made its processed_dialogues.
CardRendered == caption_stage = "done" /\ raw_responses = <<>>

\* C21: a list generate_meme_captions returns has exactly 2 captions, each
\* of 2 to 8 words, a caption of more words being cut to its first 8; and
\* the card overlays at most the first 2 dialogues of its meme record, each
\* cut to its first 8 words, after the conversion to Tnglish when that
\* applies.
C21_CaptionsOfAtMostEightWords ==
    /\ CaptionsReturned =>
           /\ Len(returned.value) = 2
           /\ \A k \in 1 .. 2 :
                  /\ WordCount(returned.value[k]) \in
                         MinDialogueWords .. MaxDialogueWords
                  /\ returned.value[k] =
                         JoinWords(captions[k], MaxDialogueWords)
    /\ CardRendered =>
           /\ Len(processed_dialogues) =
                  Min2(CardDialogues, Len(meme_data.dialogues))
           /\ \A k \in DOMAIN processed_dialogues :
                  /\ WordCount(processed_dialogues[k]) <= CardWords
                  /\ processed_dialogues[k] =
                         JoinWords(generate_tnglish_dialogues(
                                       meme_data.dialogues,
                                       meme_data.description \o " " \o
                                           StrOfList(meme_data.dialogues))[k],
                                   CardWords)

\* A caption of ten words comes back as its first eight, and a dialogue
\* that the Tnglish conversion made longer than eight words is cut on the
\* card.
C21_Witness ==
    \/ /\ CaptionsReturned
       /\ WordCount(captions[1]) > MaxDialogueWords
       /\ WordCount(returned.value[1]) = MaxDialogueWords
    \/ /\ CardRendered
       /\ is_tnglish(meme_data.description)
       /\ Len(processed_dialogues) = 2
       /\ WordCount(meme_data.dialogues[1]) = CardWords
       /\ processed_dialogues[1] # meme_data.dialogues[1]
       /\ WordCount(processed_dialogues[1]) = CardWords

\* generate_hashtags has handed back its list.
HashtagsReturned == caption_stage = "tagged"

\* C22: every list generate_hashtags returns, on every path (JSON answer,
\* regular-expression fallback, canned default, exception), holds between 6
\* and 8 strings, each starting with "#".
C22_SixToEightHashtags ==
    HashtagsReturned =>
        /\ Len(returned_hashtags) \in 6 .. MaxHashtags
        /\ \A k \in DOMAIN returned_hashtags :
               StartsWith(returned_hashtags[k], "#")

(***************************************************************************)
(* Properties of get_all_news                                              *)
(***************************************************************************)

\* get_all_news has returned.
Organized == scrape_stage = "returned"

\* C23: get_all_news returns exactly 10 articles for each of the 6 target
\* categories, whatever was scraped.
C23_TenPerCategory ==
    Organized =>
        /\ DOMAIN final_categorized_news = TargetSet
        /\ \A category \in TargetSet :
               Len(final_categorized_news[category]) = ArticlesPerCategory

\* The fields the processors read of every item without a default.
RequiredFields == {"title", "content"}

\* C29: every record get_all_news emits carries the fields the processors
\* read without a default, title and content.
C29_RecordsCarryRequiredFields ==
    Organized =>
        \A category \in TargetSet :
            \A k \in DOMAIN final_categorized_news[category] :
                RequiredFields \subseteq
                    DOMAIN final_categorized_news[category][k]

\* The places of the result: a category and a position in its list.
Places ==
    {<<category, k>> : category \in TargetSet, k \in 1 .. ArticlesPerCategory}

Emitted(place) ==
    /\ place[2] <= Len(final_categorized_news[place[1]])

ContentAt(place) == final_categorized_news[place[1]][place[2]].content

\* The category has fewer than 10 articles of its own.
ShortCategory(category) ==
    Len(GroupedNews(unique_news, category)) < ArticlesPerCategory

\* C30 as stated: no article, taken by its content, appears more than once
\* in the result of get_all_news, within one category or across two.
C30_NoArticleTwice ==
    Organized =>
        \A p, q \in Places :
            (Emitted(p) /\ Emitted(q) /\ p # q) => ContentAt(p) # ContentAt(q)

\* C30, amended: no article appears more than once within one category; an
\* article appears in two categories only when it is an entertainment
\* article, and then each of the two is 'entertainment' itself or a category
\* with fewer than 10 articles of its own, which it fills.
C30_NoArticleTwiceButFillers ==
    Organized =>
        \A p, q \in Places :
            (Emitted(p) /\ Emitted(q) /\ p # q /\ ContentAt(p) = ContentAt(q))
                => /\ p[1] # q[1]
                   /\ \E k \in DOMAIN unique_news :
                          /\ unique_news[k].content = ContentAt(p)
                          /\ unique_news[k].category = "entertainment"
                   /\ \A c \in {p[1], q[1]} :
                          c = "entertainment" \/ ShortCategory(c)

\* A reprint was removed, and an entertainment article fills 'politics'
\* while it is also among the ten of 'entertainment'.
C30_Witness ==
    /\ Organized
    /\ Len(unique_news) < Len(all_news)
    /\ ~ShortCategory("entertainment")
    /\ GroupedNews(unique_news, "politics") # <<>>
    /\ \E p, q \in Places :
           /\ p[1] = "politics" /\ q[1] = "entertainment"
           /\ Emitted(p) /\ Emitted(q)
           /\ ContentAt(p) = ContentAt(q)

\* C24: generate_meme_captions never sends the same prompt twice: its k-th
\* attempt sends the k-th of the four prompts, which are four different
\* texts; it makes at most 4 attempts, goes on only while fewer than 4 have
\* failed, and raises only once the 4th has failed.
C24_EachAttemptItsOwnPrompt ==
    /\ Len(sent_prompts) <= max_attempts
    /\ Len(dialogue_prompts) = max_attempts
    /\ \A k \in DOMAIN sent_prompts : sent_prompts[k] = dialogue_prompts[k]
    /\ \A j, k \in DOMAIN sent_prompts :
           j # k => sent_prompts[j] # sent_prompts[k]
    /\ caption_stage = "dialogue" =>
           /\ Len(sent_prompts) = dialogue_attempt
           /\ dialogue_attempt < max_attempts
           /\ returned = Pending
    /\ (sent_prompts # <<>> /\ returned = RaisedFailure) =>
           Len(sent_prompts) = max_attempts
    /\ (caption_stage = "done" /\ sent_prompts # <<>>) =>
           (returned = RaisedFailure \/ returned.kind = "returned")

\* Four attempts, the first answered by a text without captions, and the
\* function raises.
C24_Witness ==
    /\ caption_stage = "done"
    /\ returned = RaisedFailure
    /\ Len(sent_prompts) = max_attempts
    /\ raw_responses[1].kind = "text"
    /\ ExtractedFrom(raw_responses[1].value) = <<>>

\* C25: whenever get_next_available_model returns credential i, found by
\* the scan or returned after the saturation sleep, current_key_index
\* becomes (i + 1) mod N.
C25_CursorFollowsReturnedKey ==
    [][\A c \in callers :
          ReturnsModel(c) =>
              current_key_index' = (model_index'[c] + 1) % num_models]_vars

\* Every credential is at its limit for a call made now.
AllSaturated == ~ScanModels(calls_per_key, current_key_index, now, 0).found

\* The sleep of a waiting caller that is still to come.
SleepOf(c) == wake[c] - now

\* C26: get_next_available_model does not spin: when every credential is
\* saturated the caller sleeps before a credential is returned, and the
\* sleep, 60 - (age of the oldest timestamp kept for credential 0) + 1, is
\* strictly positive and at most 61 seconds.
C26_SaturationSleepsPositive ==
    /\ [](\A c \in callers :
             pc[c] = "wait" =>
                 /\ calls_per_key[0] # <<>>
                 /\ SleepOf(c) =
                        Window - (now - Min(SeqRange(calls_per_key[0])))
                            + WaitSlack
                 /\ SleepOf(c) > 0
                 /\ SleepOf(c) <= Window + WaitSlack)
    /\ [][\A c \in callers :
             /\ (pc[c] = "get_model" /\ AllSaturated /\ pc'[c] # pc[c]) =>
                    pc'[c] = "wait"
             /\ ReturnsAfterWait(c) => (now' = wake[c] /\ now' > now)]_vars

\* A caller sleeps 59 seconds: the two calls of the one credential were
\* made 2 seconds and 1 second ago.
C26_Witness ==
    /\ num_models = 1
    /\ pc[1] = "wait"
    /\ Len(calls_per_key[0]) = max_calls_per_key_per_minute
    /\ now - Min(SeqRange(calls_per_key[0])) = 2
    /\ SleepOf(1) = Window + WaitSlack - 2

\* C27: with one caller at a time, no window calls_per_key[i] ever holds
\* more than max_calls_per_key_per_minute timestamps, and calls_made of
\* every credential is the number of API calls issued on it.
C27_WindowsAndCountersInStep ==
    \A k \in Keys :
        /\ Len(calls_per_key[k]) <= max_calls_per_key_per_minute
        /\ calls_made[k] = Len(issued[k])

\* A window is full, and its credential has seen more calls than the
\* window holds.
C27_Witness ==
    \E k \in Keys :
        /\ Len(calls_per_key[k]) = max_calls_per_key_per_minute
        /\ calls_made[k] > max_calls_per_key_per_minute
        /\ num_models >= 2

\* safe_gemini_call is called once each for the category, the summary, the
\* emotion and the hashtags of an item.
SingleCallSteps == 4

\* The API calls one item may take: 2 each for category, summary, emotion
\* and hashtags, and 4 x 2 for the captions.
MaxCallsPerItem ==
    SingleCallSteps * default_retries + max_attempts * default_retries

\* process_news_with_emotion_templates is over: it returned its list, or
\* the exception of an item without a title left it.
BatchOver == stage \in {"returned", "aborted"}

\* C28: process_news_with_emotion_templates terminates for every batch when
\* every external call returns or raises: it takes at most ItemCap items
\* (20 in the source) and at most 16 LLM API calls for each of them.
C28_BatchTerminates ==
    /\ [](/\ item <= ItemCap
          /\ item <= n_items
          /\ cur.llm_calls <= MaxCallsPerItem)
    /\ <>BatchOver

\* The batch of more items than the cap was returned after its last item
\* took 16 API calls.
C28_Witness ==
    /\ stage = "loop"
    /\ n_items > ItemCap
    /\ item = ItemCap
    /\ cur.llm_calls = MaxCallsPerItem

====
